---- MODULE Spec2Model ----
(***************************************************************************)
(* A model of cmdx (src/cmdx.py): the Singleton identity cache of Node     *)
(* wrappers, the _BaseModifier transaction on top of the host's            *)
(* MDGModifier, and the commit()/_apiUndo bridge to the host undo queue.   *)
(*                                                                         *)
(* The host (Maya) is modelled only as far as cmdx observes it:            *)
(*   - MObjects are memory slots; MObjectHandle.hashCode is the slot, so  *)
(*     a new node may re-use the slot (and hash) of a destroyed one;       *)
(*   - a slot is "free" (handle invalid), "alive" (in the scene) or        *)
(*     "removed" (deleted, but kept in memory for undo; handle valid);     *)
(*   - MDGModifier queues operations, doIt applies the not yet applied     *)
(*     ones in order and stops at the first failure, undoIt reverts every  *)
(*     applied one;                                                        *)
(*   - the undo queue is a list of chunks of commands with a cursor.       *)
(***************************************************************************)
EXTENDS Integers, Sequences, FiniteSets, TLC

\* ------------------------------------------------------------------------
\* Bounds
\* ------------------------------------------------------------------------
MaxSlots == 2
MaxWrappers == 2
MaxReuse == 2
MaxPlugs == 1
MaxCalls == 2
MaxEnters == 1
MaxQueue == 1
MaxCommits == 2
MaxOps == 3
MaxIndex == 2
MaxEdits == 4

Slots == 1..MaxSlots
WrapperIds == 1..MaxWrappers

\* ------------------------------------------------------------------------
\* State of the identity cache and of the host objects it wraps
\* ------------------------------------------------------------------------
VARIABLES
    hslot,           \* host memory: slot -> "free" | "alive" | "removed"
    wr,              \* Node wrapper objects: id -> fields
    instances,       \* Singleton._instances: slot (hash) -> wrapper id, 0 = no entry
    NodeReuseCount,  \* Stats.NodeReuseCount
    ROGUE_MODE,      \* module flag, fixed at import
    cplugs,          \* Plug objects the client holds
    crashed,         \* the host process died on an illegal access
    lastOp,          \* observation: the last wrapper/plug operation and its outcome
    lastRes          \* observation: the last resolution and the one right before it

cacheVars == <<hslot, wr, instances, NodeReuseCount,
               ROGUE_MODE, cplugs, crashed, lastOp, lastRes>>

\* ------------------------------------------------------------------------
\* State of the scene graph, of the transaction and of the undo bridge
\* ------------------------------------------------------------------------
VARIABLES
    scene,           \* host graph besides node existence: connections, values, flags
    SAFE_MODE,       \* module flag, fixed at import
    _opts,           \* the transaction's options: atomic, undoable
    _modifier,       \* the transaction's MDGModifier: queued operations, how many are applied
    _history,        \* the transaction's _history
    _stowed,         \* the transaction's _lockAttrs, _keyableAttrs and _niceNames
    _attributesBeingAdded,
    inBody,          \* control is inside the body of "with modifier:"
    ncalls,          \* edit-method calls made on the transaction so far
    called,          \* observation: edit-method calls since the last successful doIt
    lastCall,        \* observation: the last call on the transaction
    didIt,           \* observation: a doIt of the transaction went through and applied something
    nenters,         \* times the transaction was entered as a context so far
    undoId,          \* shared.undoId
    redoId,          \* shared.redoId
    undos,           \* shared.undos (keys; a closure is found by its id)
    redos,           \* shared.redos
    installed,       \* the plug-in command is registered with the host
    uqueue,          \* host undo queue: chunks of commands, cursor, open chunks
    lastUndo         \* observation: undo and redo steps since the last commit

sceneVars == <<scene>>

modVars == <<SAFE_MODE, _opts, _modifier, _history, _stowed,
             _attributesBeingAdded, inBody, ncalls, called, lastCall, didIt,
             nenters>>

undoVars == <<undoId, redoId, undos, redos, installed, uqueue, lastUndo>>

\* ------------------------------------------------------------------------
\* State of one channel of a node, of the values cached for it, and of one
\* array channel
\* ------------------------------------------------------------------------
VARIABLES
    mvalue,          \* host: the value of the node's translateX, in centimetres
    values,          \* Node._state["values"]: (key, unit) -> value
    pheld,           \* the Plug the client holds: _key, _unit, _cached
    plog,            \* observation: the accesses made so far and what they gave
    marray,          \* host: the elements of the array channel, in physical order
    alog,            \* observation: the connections made and broken so far
    hasFn,           \* host: the function sets MObject.hasFn answers True for
    ofType,          \* Singleton._instances[hx]: the class of the entry, "" if none
    made             \* observation: the last call of a wrapper class and its result

plugVars == <<mvalue, values, pheld, plog>>

arrayVars == <<marray, alog>>

typeVars == <<hasFn, ofType, made>>

vars == <<cacheVars, sceneVars, modVars, undoVars, plugVars, arrayVars,
          typeVars>>

NoWrapper == [used |-> FALSE, slot |-> 0, destroyed |-> FALSE, held |-> FALSE]

NoOp == [op |-> "none", destroyed |-> FALSE, alive |-> FALSE, res |-> "none"]

NoRes == [slot |-> 0, w |-> 0, pair |-> "none", counted |-> 0]

\* The outcomes of touching a freed MObject through the host API
DeadAccess == {"RuntimeError", "crash", "ok"}

\* om.MObjectHandle(mobject).isValid()
isValid(s) == hslot[s] # "free"

\* Wrappers that something still references: the client, a Plug the client
\* holds (Plug._node), or the registry
Referenced(w, wrs, inst, plugs) ==
    \/ wrs[w].held
    \/ \E p \in plugs : p.w = w
    \/ \E s \in Slots : inst[s] = w

\* Reference counting: an unreferenced wrapper runs __del__, which removes
\* its callbacks, and is gone
Collect(wrs, inst, plugs) ==
    [w \in WrapperIds |->
        IF wrs[w].used /\ ~Referenced(w, wrs, inst, plugs)
        THEN NoWrapper ELSE wrs[w]]

FreeIds == {w \in WrapperIds : ~wr[w].used}

NewId == CHOOSE w \in FreeIds : \A v \in FreeIds : w <= v

\* Node.__init__ as called from Singleton.__call__
NewWrapper(s) == [used |-> TRUE, slot |-> s, destroyed |-> FALSE, held |-> FALSE]

\* Mutant: a wrapper that loses its registry entry is marked live again
Kept_Revived(wrs, K) ==
    [w \in WrapperIds |->
        IF w \in K THEN [wrs[w] EXCEPT !.held = TRUE, !.destroyed = FALSE] ELSE wrs[w]]

\* The wrappers in K lose their registry entry while the client still has a
\* reference to them
Kept(wrs, K) == [w \in WrapperIds |-> IF w \in K THEN [wrs[w] EXCEPT !.held = TRUE] ELSE wrs[w]]

Registered == {instances[s] : s \in Slots} \ {0}

\* ------------------------------------------------------------------------
\* The scene graph and the host's MDGModifier
\* ------------------------------------------------------------------------

\* A node is its slot.  Every node has a source attribute "tx", a
\* destination attribute "ty" and, once added, a dynamic attribute "dyn";
\* a connection <<s, d>> goes from s.tx to d.ty
Vals == {0, 1}

FlagPlugs == Slots \X {"ty", "dyn"}

NoScene ==
    [conns |-> {}, val |-> [n \in Slots |-> 0],
     lock |-> {}, keyable |-> {}, nice |-> {}, named |-> {}, dyn |-> {}]

\* The host graph as one value
Graph ==
    [node |-> hslot, conns |-> scene.conns, val |-> scene.val,
     lock |-> scene.lock, keyable |-> scene.keyable, nice |-> scene.nice,
     named |-> scene.named, dyn |-> scene.dyn]

SceneOf(G) ==
    [conns |-> G.conns, val |-> G.val, lock |-> G.lock,
     keyable |-> G.keyable, nice |-> G.nice, named |-> G.named, dyn |-> G.dyn]

\* What a client can see of graph G: the nodes in the scene and what they
\* carry
Visible(G) ==
    LET in == {n \in Slots : G.node[n] = "alive"}
    IN [node |-> in,
        conns |-> {c \in G.conns : c[1] \in in /\ c[2] \in in},
        val |-> [n \in Slots |-> IF n \in in THEN G.val[n] ELSE 0],
        lock |-> {x \in G.lock : x[1] \in in},
        keyable |-> {x \in G.keyable : x[1] \in in},
        nice |-> {x \in G.nice : x[1] \in in},
        named |-> G.named \cap in,
        dyn |-> G.dyn \cap in]

\* MPlug.connectedTo(True, False) on d.ty: the sources connected to it
Incoming(G, d) == {c \in G.conns : c[2] = d}

\* An operation in the queue of an MDGModifier: what to do (t, a, b), the
\* edit-method call that queued it (seq) and, once applied, what it
\* replaced (old, oldc)
Op(t, a, b, seq) == [t |-> t, a |-> a, b |-> b, seq |-> seq, old |-> 0, oldc |-> {}]

NoModifier == [ops |-> <<>>, done |-> 0]

\* The host accepts the operation in graph G
CanApply(G, o) ==
    CASE o.t = "createNode" -> G.node[o.a] = "removed"
      [] o.t = "deleteNode" -> G.node[o.a] = "alive"
      [] o.t = "renameNode" -> G.node[o.a] = "alive"
      [] o.t = "addAttribute" -> G.node[o.a] = "alive"
      [] o.t = "removeAttribute" -> G.node[o.a] = "alive" /\ o.a \in G.dyn
      [] o.t = "setAttr" -> /\ G.node[o.a] = "alive"
                            /\ Incoming(G, o.a) = {}
                            /\ <<o.a, "ty">> \notin G.lock
      [] o.t = "connect" -> /\ G.node[o.a] = "alive"
                            /\ G.node[o.b] = "alive"
                            /\ Incoming(G, o.b) = {}
                            /\ <<o.b, "ty">> \notin G.lock
      [] o.t = "disconnect" -> <<o.a, o.b>> \in G.conns

\* The graph after the operation
Apply(G, o) ==
    CASE o.t = "createNode" -> [G EXCEPT !.node[o.a] = "alive"]
      [] o.t = "deleteNode" ->
            [G EXCEPT !.node[o.a] = "removed",
                      !.conns = {c \in G.conns : c[1] # o.a /\ c[2] # o.a}]
      [] o.t = "renameNode" -> [G EXCEPT !.named = G.named \cup {o.a}]
      [] o.t = "addAttribute" -> [G EXCEPT !.dyn = G.dyn \cup {o.a}]
      [] o.t = "removeAttribute" -> [G EXCEPT !.dyn = G.dyn \ {o.a}]
      [] o.t = "setAttr" -> [G EXCEPT !.val[o.a] = o.b]
      [] o.t = "connect" -> [G EXCEPT !.conns = G.conns \cup {<<o.a, o.b>>}]
      [] o.t = "disconnect" -> [G EXCEPT !.conns = G.conns \ {<<o.a, o.b>>}]

\* The operation as the modifier keeps it once applied to G
Applied(G, o) ==
    CASE o.t = "deleteNode" ->
            [o EXCEPT !.oldc = {c \in G.conns : c[1] = o.a \/ c[2] = o.a}]
      [] o.t = "renameNode" -> [o EXCEPT !.old = IF o.a \in G.named THEN 1 ELSE 0]
      [] o.t = "addAttribute" -> [o EXCEPT !.old = IF o.a \in G.dyn THEN 1 ELSE 0]
      [] o.t = "setAttr" -> [o EXCEPT !.old = G.val[o.a]]
      [] OTHER -> o

\* The graph after the applied operation is reverted
Revert(G, o) ==
    CASE o.t = "createNode" -> [G EXCEPT !.node[o.a] = "removed"]
      [] o.t = "deleteNode" ->
            [G EXCEPT !.node[o.a] = "alive", !.conns = G.conns \cup o.oldc]
      [] o.t = "renameNode" ->
            [G EXCEPT !.named = IF o.old = 1 THEN G.named ELSE G.named \ {o.a}]
      [] o.t = "addAttribute" ->
            [G EXCEPT !.dyn = IF o.old = 1 THEN G.dyn ELSE G.dyn \ {o.a}]
      [] o.t = "removeAttribute" -> [G EXCEPT !.dyn = G.dyn \cup {o.a}]
      [] o.t = "setAttr" -> [G EXCEPT !.val[o.a] = o.old]
      [] o.t = "connect" -> [G EXCEPT !.conns = G.conns \ {<<o.a, o.b>>}]
      [] o.t = "disconnect" -> [G EXCEPT !.conns = G.conns \cup {<<o.a, o.b>>}]

\* MDGModifier.doIt: apply the operations not applied yet, in queue order,
\* and stop at the first one the host refuses
RECURSIVE MDGModifier_doIt(_, _)
MDGModifier_doIt(G, M) ==
    IF M.done = Len(M.ops) THEN [G |-> G, M |-> M, ok |-> TRUE]
    ELSE LET o == M.ops[M.done + 1]
         IN IF ~CanApply(G, o) THEN [G |-> G, M |-> M, ok |-> FALSE]
            ELSE MDGModifier_doIt(
                    Apply(G, o),
                    [ops |-> [M.ops EXCEPT ![M.done + 1] = Applied(G, o)],
                     done |-> M.done + 1])

\* MDGModifier.undoIt: revert every applied operation, last one first
RECURSIVE MDGModifier_undoIt(_, _)
MDGModifier_undoIt(G, M) ==
    IF M.done = 0 THEN [G |-> G, M |-> M]
    ELSE MDGModifier_undoIt(Revert(G, M.ops[M.done]),
                            [M EXCEPT !.done = M.done - 1])

\* ------------------------------------------------------------------------
\* The host undo queue and the closures cmdx puts behind its commands
\* ------------------------------------------------------------------------

\* "%x" % id(function): two live function objects never share an id, the
\* same function object always has the same one
None == <<"none", 0>>

UserFns == {<<"user", 1>>, <<"user", 2>>}

\* The default of commit's redo argument, one function object for all calls
DefaultRedo == <<"user", 0>>

ClosureIds == 1..(MaxQueue + 1)

\* A command on the undo queue: an instance of _apiUndo with the ids it took
\* in doIt, or a maya.cmds command (createNode, setAttr of a flag)
ApiCmd(u, r) ==
    [kind |-> "api", u |-> u, r |-> r, a |-> 0, attr |-> "", k |-> "",
     v |-> FALSE, old |-> FALSE]

CreateCmd(n) ==
    [kind |-> "createNode", u |-> None, r |-> None, a |-> n, attr |-> "",
     k |-> "", v |-> FALSE, old |-> FALSE]

FlagCmd(k, n, attr, v, old) ==
    [kind |-> "setAttr", u |-> None, r |-> None, a |-> n, attr |-> attr,
     k |-> k, v |-> v, old |-> old]

NoQueue == [q |-> <<>>, cursor |-> 0, depth |-> 0, started |-> FALSE]

NoGraph ==
    [node |-> {}, conns |-> {}, val |-> [n \in Slots |-> 0],
     lock |-> {}, keyable |-> {}, nice |-> {}, named |-> {}, dyn |-> {}]

NoUndo == [kind |-> "none", stage |-> "idle", f |-> None, g |-> None,
           log |-> <<>>, pre |-> NoGraph, post |-> NoGraph]

\* The commands of the chunks past the cursor: the host destroys them when a
\* new command is recorded
RedoPart(Q) ==
    UNION {{Q.q[i][j] : j \in 1..Len(Q.q[i])} : i \in (Q.cursor + 1)..Len(Q.q)}

\* _apiUndo.__del__ of every command in D: pop its ids from both tables
AfterDel(ids, D, field) == ids \ {c[field] : c \in {d \in D : d.kind = "api"}}

\* The host records command c: into the open chunk if it has begun, else as
\* a new step that replaces whatever could still be redone
Push(Q, c) ==
    IF Q.depth > 0 /\ Q.started
    THEN [Q EXCEPT !.q[Q.cursor] = Append(@, c)]
    ELSE [q |-> Append(SubSeq(Q.q, 1, Q.cursor), <<c>>),
          cursor |-> Q.cursor + 1,
          depth |-> Q.depth,
          started |-> Q.depth > 0]

Pushed(Q) == IF Q.depth > 0 /\ Q.started THEN {} ELSE RedoPart(Q)

\* Flag k of plug <<n, attr>> set to v
SetFlag(G, k, n, attr, v) ==
    LET cur == G[k]
        new == IF v THEN cur \cup {<<n, attr>>} ELSE cur \ {<<n, attr>>}
    IN [G EXCEPT ![k] = new]

\* What an undo or redo step works on: the graph, the transaction's
\* MDGModifier and the closures invoked so far
Env(G, M, log) == [G |-> G, M |-> M, log |-> log]

\* Call the closure with this id.  undoit and redoit are the closures made
\* by __exit__; a user's closure is only observed
Invoke(E, id) ==
    LET logged == [E EXCEPT !.log = Append(@, id)]
    IN CASE id[1] = "undoit" ->
                LET R == MDGModifier_undoIt(E.G, E.M)
                IN [logged EXCEPT !.G = R.G, !.M = R.M]
         [] id[1] = "redoit" ->
                LET R == MDGModifier_doIt(E.G, E.M)
                IN [logged EXCEPT !.G = R.G, !.M = R.M]
         [] OTHER -> logged

\* _apiUndo.undoIt, or the host's own undo of a maya.cmds command
UndoCmd(E, c) ==
    CASE c.kind = "api" -> IF c.u \in undos THEN Invoke(E, c.u) ELSE E
      [] c.kind = "createNode" -> [E EXCEPT !.G.node[c.a] = "removed"]
      [] c.kind = "setAttr" -> [E EXCEPT !.G = SetFlag(E.G, c.k, c.a, c.attr, c.old)]

\* _apiUndo.redoIt, or the host's own redo of a maya.cmds command
RedoCmd(E, c) ==
    CASE c.kind = "api" -> IF c.r \in redos THEN Invoke(E, c.r) ELSE E
      [] c.kind = "createNode" -> [E EXCEPT !.G.node[c.a] = "alive"]
      [] c.kind = "setAttr" -> [E EXCEPT !.G = SetFlag(E.G, c.k, c.a, c.attr, c.v)]

RECURSIVE UndoChunk(_, _, _)
UndoChunk(E, chunk, i) ==
    IF i = 0 THEN E ELSE UndoChunk(UndoCmd(E, chunk[i]), chunk, i - 1)

RECURSIVE RedoChunk(_, _, _)
RedoChunk(E, chunk, i) ==
    IF i > Len(chunk) THEN E ELSE RedoChunk(RedoCmd(E, chunk[i]), chunk, i + 1)

UndoInit ==
    /\ undoId = None
    /\ redoId = None
    /\ undos = {}
    /\ redos = {}
    /\ installed = FALSE
    /\ uqueue = NoQueue
    /\ lastUndo = NoUndo

SceneInit == scene = NoScene

\* Nothing was called on the transaction
NoCall == [m |-> "none", res |-> "none", ran |-> 0, force |-> FALSE,
           inc |-> FALSE, queued |-> <<>>, flushAt |-> -1, history |-> <<>>]

\* An empty scene, nothing wrapped yet
CacheEmpty ==
    /\ hslot = [s \in Slots |-> "free"]
    /\ wr = [w \in WrapperIds |-> NoWrapper]
    /\ instances = [s \in Slots |-> 0]
    /\ NodeReuseCount = 0
    /\ cplugs = {}
    /\ crashed = FALSE
    /\ lastOp = NoOp
    /\ lastRes = NoRes

\* _BaseModifier.__init__, apart from the options
ModEmpty ==
    /\ _modifier = NoModifier
    /\ _history = <<>>
    /\ _stowed = [keyableAttrs |-> <<>>, niceNames |-> <<>>, lockAttrs |-> <<>>]
    /\ _attributesBeingAdded = <<>>
    /\ inBody = FALSE
    /\ ncalls = 0
    /\ didIt = FALSE
    /\ nenters = 0
    /\ called = <<>>
    /\ lastCall = NoCall

\* The defaults: CMDX_SAFE_MODE unset, _BaseModifier()
ModDefault ==
    /\ SAFE_MODE = FALSE
    /\ _opts = [atomic |-> FALSE, undoable |-> TRUE]
    /\ ModEmpty

\* The two names of the channel, translateX
Names == {"tx", "translateX"}

\* The unit of a Plug: none given, or Millimeters
NoUnit == "None"

Units == {NoUnit, "Millimeters"}

\* Node._state["values"] is keyed by (key, unit)
PlugKeys == Names \X Units

\* No entry (KeyError), no value
Missing == -1

NoPlug == [_key |-> "", _unit |-> NoUnit, _cached |-> Missing]

\* A node nothing was read from, no Plug obtained yet
PlugEmpty ==
    /\ mvalue = 0
    /\ values = [k \in PlugKeys |-> Missing]
    /\ pheld = NoPlug
    /\ plog = <<>>

\* An array channel without elements
ArrayEmpty ==
    /\ marray = <<>>
    /\ alog = <<>>

\* The function sets Singleton.__call__ probes an MObject for
Fns == {"kDagContainer", "kContainer", "kDagNode", "kSet", "kAnimCurve"}

\* The wrapper classes, all instances of the metaclass Singleton
Classes == {"Node", "DagNode", "ContainerNode", "ObjectSet", "AnimCurve"}

\* No wrapper class was called
NoNode == [cls |-> "", exists |-> FALSE, new |-> FALSE, type |-> ""]

\* A plain dependency node without a wrapper
TypeEmpty ==
    /\ hasFn = {}
    /\ ofType = ""
    /\ made = NoNode

CacheInit ==
    /\ CacheEmpty
    /\ ROGUE_MODE \in BOOLEAN
    /\ SceneInit
    /\ ModDefault
    /\ UndoInit
    /\ PlugEmpty
    /\ ArrayEmpty
    /\ TypeEmpty

\* ------------------------------------------------------------------------
\* Host events the cache observes
\* ------------------------------------------------------------------------

\* Node._onDestroyed, fired synchronously on every wrapper subscribed to
\* a node in the slots D: it sets _destroyed and nothing else.  A wrapper
\* subscribes in __init__ to the node then behind its handle and keeps the
\* subscription as long as it lives, so the subscribers of the node now in
\* slot s are the wrappers of s whose callback has not fired yet
_onDestroyed(D) ==
    [w \in WrapperIds |->
        IF wr[w].used /\ wr[w].slot \in D
        THEN [wr[w] EXCEPT !.destroyed = TRUE]
        ELSE wr[w]]

\* The plugs the client holds once the nodes in the slots D are freed
PlugsFreed(D) ==
    {IF wr[p.w].slot \in D THEN [p EXCEPT !.freed = TRUE] ELSE p : p \in cplugs}

\* A node appears in the scene without cmdx (scene open, maya.cmds)
HostCreate(s) ==
    /\ ~crashed
    /\ hslot[s] = "free"
    /\ hslot' = [hslot EXCEPT ![s] = "alive"]
    /\ lastOp' = NoOp
    /\ UNCHANGED <<wr, instances, NodeReuseCount, ROGUE_MODE,
                   cplugs, crashed, lastRes>>
    /\ UNCHANGED <<sceneVars, modVars, undoVars, plugVars, arrayVars, typeVars>>

\* The node is deleted: removed from the scene, kept in memory for undo
HostRemove(s) ==
    /\ ~crashed
    /\ hslot[s] = "alive"
    /\ hslot' = [hslot EXCEPT ![s] = "removed"]
    /\ lastOp' = NoOp
    /\ UNCHANGED <<wr, instances, NodeReuseCount, ROGUE_MODE,
                   cplugs, crashed, lastRes>>
    /\ UNCHANGED <<sceneVars, modVars, undoVars, plugVars, arrayVars, typeVars>>

\* The deletion is undone
HostRestore(s) ==
    /\ ~crashed
    /\ hslot[s] = "removed"
    /\ hslot' = [hslot EXCEPT ![s] = "alive"]
    /\ lastOp' = NoOp
    /\ UNCHANGED <<wr, instances, NodeReuseCount, ROGUE_MODE,
                   cplugs, crashed, lastRes>>
    /\ UNCHANGED <<sceneVars, modVars, undoVars, plugVars, arrayVars, typeVars>>

\* The node is destroyed (new scene, scene open, flushed undo): its memory
\* is freed and the destroyed callbacks fire before the host call returns
HostDestroy(s) ==
    /\ ~crashed
    /\ hslot[s] # "free"
    /\ hslot' = [hslot EXCEPT ![s] = "free"]
    /\ wr' = _onDestroyed({s})
    /\ cplugs' = PlugsFreed({s})
    /\ lastRes' = IF lastRes.slot = s THEN NoRes ELSE lastRes
    /\ lastOp' = NoOp
    /\ UNCHANGED <<instances, NodeReuseCount, ROGUE_MODE, crashed>>
    /\ UNCHANGED <<sceneVars, modVars, undoVars, plugVars, arrayVars, typeVars>>

\* ------------------------------------------------------------------------
\* Singleton.__call__
\* ------------------------------------------------------------------------

\* Mutant: the registered wrapper is returned without a look at _destroyed
Reuses_Unchecked(s) ==
    /\ isValid(s)
    /\ instances[s] # 0

\* The branch that returns the registered wrapper
Reuses(s) ==
    /\ isValid(s)
    /\ instances[s] # 0
    /\ ~wr[instances[s]].destroyed

\* What the resolution that follows lastRes has to compare against
ResObserved(s, w, counted) ==
    [slot |-> s, w |-> w,
     pair |-> IF lastRes.slot # s THEN "none"
              ELSE IF lastRes.w = w THEN "same" ELSE "other",
     counted |-> IF lastRes.slot = s THEN counted ELSE 0]

\* Mutant: the registered wrapper is returned but the reuse is not counted
ResolveReuse_NotCounted(s) ==
    /\ ~crashed
    /\ Reuses(s)
    /\ NodeReuseCount < MaxReuse
    /\ NodeReuseCount' = NodeReuseCount
    /\ lastRes' = ResObserved(s, instances[s], NodeReuseCount' - NodeReuseCount)
    /\ lastOp' = NoOp
    /\ UNCHANGED <<hslot, wr, instances, ROGUE_MODE, cplugs, crashed>>
    /\ UNCHANGED <<sceneVars, modVars, undoVars, plugVars, arrayVars, typeVars>>

\* Node(mobject), exists=True, found and alive: count the reuse, return it
ResolveReuse(s) ==
    /\ ~crashed
    /\ Reuses(s)
    /\ NodeReuseCount < MaxReuse
    /\ NodeReuseCount' = NodeReuseCount + 1
    /\ lastRes' = ResObserved(s, instances[s], NodeReuseCount' - NodeReuseCount)
    /\ lastOp' = NoOp
    /\ UNCHANGED <<hslot, wr, instances, ROGUE_MODE, cplugs, crashed>>
    /\ UNCHANGED <<sceneVars, modVars, undoVars, plugVars, arrayVars, typeVars>>

\* Node(mobject), exists=True, valid handle, no usable entry: a destroyed
\* entry is popped, a new wrapper is constructed and registered
ResolveNew(s) ==
    /\ ~crashed
    /\ isValid(s)
    /\ ~Reuses(s)
    /\ FreeIds # {}
    /\ \E K \in SUBSET ({instances[s]} \ {0}) :
       LET w == NewId
           inst == [instances EXCEPT ![s] = w]
           wrs == [Kept(wr, K) EXCEPT ![w] = NewWrapper(s)]
       IN /\ instances' = inst
          /\ wr' = Collect(wrs, inst, cplugs)
          /\ lastRes' = ResObserved(s, w, 0)
    /\ lastOp' = NoOp
    /\ UNCHANGED <<hslot, NodeReuseCount, ROGUE_MODE, cplugs, crashed>>
    /\ UNCHANGED <<sceneVars, modVars, undoVars, plugVars, arrayVars, typeVars>>

\* Node(mobject) on an invalid handle: the registry is skipped and
\* Node.__init__ hands the freed MObject to addNodeDestroyedCallback
ResolveInvalid(s) ==
    /\ ~crashed
    /\ ~isValid(s)
    /\ \E out \in {"RuntimeError", "crash"} :
          /\ crashed' = (out = "crash")
          /\ lastOp' = [op |-> "Node", destroyed |-> FALSE,
                        alive |-> FALSE, res |-> out]
    /\ lastRes' = NoRes
    /\ UNCHANGED <<hslot, wr, instances, NodeReuseCount, ROGUE_MODE, cplugs>>
    /\ UNCHANGED <<sceneVars, modVars, undoVars, plugVars, arrayVars, typeVars>>

\* cmdx.createNode: the host creates the node, then Node(mobj, exists=False)
\* constructs a wrapper without looking at the registry and registers it
createNode(s) ==
    /\ ~crashed
    /\ hslot[s] = "free"
    /\ FreeIds # {}
    /\ hslot' = [hslot EXCEPT ![s] = "alive"]
    /\ \E K \in SUBSET ({instances[s]} \ {0}) :
       LET w == NewId
           inst == [instances EXCEPT ![s] = w]
           wrs == [Kept(wr, K) EXCEPT ![w] = NewWrapper(s)]
       IN /\ instances' = inst
          /\ wr' = Collect(wrs, inst, cplugs)
    /\ lastRes' = NoRes
    /\ lastOp' = NoOp
    /\ UNCHANGED <<NodeReuseCount, ROGUE_MODE, cplugs, crashed>>
    /\ UNCHANGED <<sceneVars, modVars, undoVars, plugVars, arrayVars, typeVars>>

\* The scene once the nodes in the slots D are freed
SceneFreed(D) ==
    [conns |-> {c \in scene.conns : c[1] \notin D /\ c[2] \notin D},
     val |-> [n \in Slots |-> IF n \in D THEN 0 ELSE scene.val[n]],
     lock |-> {x \in scene.lock : x[1] \notin D},
     keyable |-> {x \in scene.keyable : x[1] \notin D},
     nice |-> {x \in scene.nice : x[1] \notin D},
     named |-> scene.named \ D,
     dyn |-> scene.dyn \ D]

\* Mutant: clear() leaves the closure tables as they are
clear_KeepsClosures ==
    /\ ~crashed
    /\ ~inBody
    /\ \E K \in SUBSET Registered, D \in SUBSET {s \in Slots : hslot[s] = "removed"} :
       LET inst == [s \in Slots |-> 0]
           held == [w \in WrapperIds |->
                       IF w \in K THEN [_onDestroyed(D)[w] EXCEPT !.held = TRUE]
                       ELSE _onDestroyed(D)[w]]
       IN /\ instances' = inst
          /\ hslot' = [s \in Slots |-> IF s \in D THEN "free" ELSE hslot[s]]
          /\ cplugs' = PlugsFreed(D)
          /\ wr' = Collect(held, inst, cplugs)
          /\ scene' = SceneFreed(D)
    /\ undoId' = None
    /\ redoId' = None
    /\ UNCHANGED <<undos, redos>>
    /\ uqueue' = NoQueue
    /\ lastUndo' = NoUndo
    /\ lastRes' = NoRes
    /\ lastOp' = NoOp
    /\ UNCHANGED <<NodeReuseCount, ROGUE_MODE, crashed, installed, modVars>>
    /\ UNCHANGED <<plugVars, arrayVars, typeVars>>

\* cmdx.clear(): the registry is emptied, the shared undo state reset, the
\* host's undo queue flushed (which frees deleted nodes the queue alone kept
\* in memory) and the garbage collected
clear ==
    /\ ~crashed
    /\ ~inBody
    /\ \E K \in SUBSET Registered, D \in SUBSET {s \in Slots : hslot[s] = "removed"} :
       LET inst == [s \in Slots |-> 0]
           held == [w \in WrapperIds |->
                       IF w \in K THEN [_onDestroyed(D)[w] EXCEPT !.held = TRUE]
                       ELSE _onDestroyed(D)[w]]
       IN /\ instances' = inst
          /\ hslot' = [s \in Slots |-> IF s \in D THEN "free" ELSE hslot[s]]
          /\ cplugs' = PlugsFreed(D)
          /\ wr' = Collect(held, inst, cplugs)
          /\ scene' = SceneFreed(D)
    /\ undoId' = None
    /\ redoId' = None
    /\ undos' = {}
    /\ redos' = {}
    /\ uqueue' = NoQueue
    /\ lastUndo' = NoUndo
    /\ lastRes' = NoRes
    /\ lastOp' = NoOp
    /\ UNCHANGED <<NodeReuseCount, ROGUE_MODE, crashed, installed, modVars>>
    /\ UNCHANGED <<plugVars, arrayVars, typeVars>>

\* The client drops its last reference to a wrapper the registry no longer
\* holds
Release(w) ==
    /\ ~crashed
    /\ wr[w].used /\ wr[w].held
    /\ wr' = Collect([wr EXCEPT ![w].held = FALSE], instances, cplugs)
    /\ lastOp' = NoOp
    /\ UNCHANGED <<hslot, instances, NodeReuseCount, ROGUE_MODE,
                   cplugs, crashed, lastRes>>
    /\ UNCHANGED <<sceneVars, modVars, undoVars, plugVars, arrayVars, typeVars>>

\* ------------------------------------------------------------------------
\* Operations on a wrapper and on a Plug obtained from it
\* ------------------------------------------------------------------------

\* _isalive(mobject): the handle is valid and the node is in the scene
_isalive(s) == hslot[s] = "alive"

\* The MFn call behind an unguarded method: defined on a valid handle,
\* anything on a freed one
FnOutcomes(s) == IF isValid(s) THEN {"ok"} ELSE DeadAccess

\* Mutant: the guard trusts the handle and ignores the _destroyed flag
protected_HandleOnly(w) ==
    IF ROGUE_MODE THEN FnOutcomes(wr[w].slot)
    ELSE IF ~_isalive(wr[w].slot) THEN {"ExistError"}
    ELSE FnOutcomes(wr[w].slot)

\* @protected: the check is compiled out in rogue mode
protected(w) ==
    IF ROGUE_MODE THEN FnOutcomes(wr[w].slot)
    ELSE IF wr[w].destroyed \/ ~_isalive(wr[w].slot) THEN {"ExistError"}
    ELSE FnOutcomes(wr[w].slot)

Observed(op, w, out) ==
    [op |-> op, destroyed |-> wr[w].destroyed,
     alive |-> _isalive(wr[w].slot), res |-> out]

\* Node.name() and Node.path() / DagNode.path(), both @protected
NodeMethod(w, op) ==
    /\ ~crashed
    /\ wr[w].used
    /\ \E out \in protected(w) :
          /\ lastOp' = Observed(op, w, out)
          /\ crashed' = (out = "crash")
    /\ lastRes' = NoRes
    /\ UNCHANGED <<hslot, wr, instances, NodeReuseCount, ROGUE_MODE, cplugs>>
    /\ UNCHANGED <<sceneVars, modVars, undoVars, plugVars, arrayVars, typeVars>>

\* Node.findPlug: guarded by _isalive alone, in either mode
findPlug(w, known) ==
    IF ~_isalive(wr[w].slot) THEN "ExistError"
    ELSE IF ~known THEN "ExistError"
    ELSE "ok"

\* node[key]: Node.__getitem__ without Cached; the Plug it returns keeps
\* the wrapper and the MPlug of the node now behind the handle
getitem(w, known) ==
    /\ ~crashed
    /\ wr[w].used
    /\ LET out == findPlug(w, known)
           p == [w |-> w, freed |-> FALSE]
       IN /\ lastOp' = Observed("getitem", w, out)
          /\ IF out = "ok"
             THEN /\ p \in cplugs \/ Cardinality(cplugs) < MaxPlugs
                  /\ cplugs' = cplugs \cup {p}
             ELSE cplugs' = cplugs
    /\ lastRes' = NoRes
    /\ UNCHANGED <<hslot, wr, instances, NodeReuseCount, ROGUE_MODE, crashed>>
    /\ UNCHANGED <<sceneVars, modVars, undoVars, plugVars, arrayVars, typeVars>>

\* The node the MPlug was taken from is still the one in that memory
PlugBacked(p) == ~p.freed

\* Plug.read / Plug.write: _plug_to_python / _python_to_plug on the MPlug,
\* with no check of the owning node
PlugAccess(p, op) ==
    /\ ~crashed
    /\ p \in cplugs
    /\ \E out \in (IF PlugBacked(p) THEN {"ok"} ELSE DeadAccess) :
          /\ lastOp' = Observed(op, p.w, out)
          /\ crashed' = (out = "crash")
    /\ lastRes' = NoRes
    /\ UNCHANGED <<hslot, wr, instances, NodeReuseCount, ROGUE_MODE, cplugs>>
    /\ UNCHANGED <<sceneVars, modVars, undoVars, plugVars, arrayVars, typeVars>>

\* The client drops a Plug
ReleasePlug(p) ==
    /\ ~crashed
    /\ p \in cplugs
    /\ cplugs' = cplugs \ {p}
    /\ wr' = Collect(wr, instances, cplugs \ {p})
    /\ lastOp' = NoOp
    /\ UNCHANGED <<hslot, instances, NodeReuseCount, ROGUE_MODE,
                   crashed, lastRes>>
    /\ UNCHANGED <<sceneVars, modVars, undoVars, plugVars, arrayVars, typeVars>>

\* ------------------------------------------------------------------------
\* commit, the host's undo and redo, and other undoable host commands
\* ------------------------------------------------------------------------

\* commit writes the ids of the two closures to the shared slot
CommitSlot(u, r) == [undoId |-> u, redoId |-> r]

\* Mutant: the command takes the ids and leaves them in the slot
_apiUndo_doIt_KeepsSlot(S) ==
    [u |-> S.undoId, r |-> S.redoId, undoId |-> S.undoId, redoId |-> S.redoId]

\* _apiUndo.doIt: the command instance takes the ids found in the slot and
\* empties the slot
_apiUndo_doIt(S) ==
    [u |-> S.undoId, r |-> S.redoId, undoId |-> None, redoId |-> None]

\* The tables and the queue after commit(u, r) went through: the closures are
\* stored under their ids, the command is invoked, takes the ids in its doIt
\* and is recorded by the host
Committed(us, rs, Q, u, r) ==
    LET D == _apiUndo_doIt(CommitSlot(u, r))
    IN [undos |-> AfterDel(us \cup {u}, Pushed(Q), "u"),
        redos |-> AfterDel(rs \cup {r}, Pushed(Q), "r"),
        uqueue |-> Push(Q, ApiCmd(D.u, D.r)),
        undoId |-> D.undoId,
        redoId |-> D.redoId]

\* install(): loading the plug-in may fail
InstallOutcomes == IF installed THEN {TRUE} ELSE BOOLEAN

\* The closure tables, the queue and the slot as they are
Uncommitted ==
    [undos |-> undos, redos |-> redos, uqueue |-> uqueue,
     undoId |-> undoId, redoId |-> redoId]

\* Mutant: a failure of install() is swallowed and commit carries on
install_Swallowed(ok, C) == C

\* commit with the outcome of install(): cmds.loadPlugin raises when the
\* plug-in cannot be loaded, which leaves commit before it has stored
\* anything; else commit goes through and gives C
install(ok, C) == IF ok THEN C ELSE Uncommitted

\* cmdx.commit(undo, redo) called by the client
commit(u, r) ==
    /\ ~inBody
    /\ uqueue.cursor < MaxCommits
    /\ \E ok \in InstallOutcomes :
          LET C == install(ok, Committed(undos, redos, uqueue, u, r))
          IN /\ installed' = (installed \/ ok)
             /\ undos' = C.undos
             /\ redos' = C.redos
             /\ uqueue' = C.uqueue
             /\ undoId' = C.undoId
             /\ redoId' = C.redoId
             /\ lastUndo' = IF ok
                            THEN [NoUndo EXCEPT !.kind = "commit",
                                                !.stage = "committed",
                                                !.f = u, !.g = r]
                            ELSE [NoUndo EXCEPT !.kind = "commit",
                                                !.stage = "raised"]
    /\ UNCHANGED <<cacheVars, sceneVars, modVars, plugVars, arrayVars, typeVars>>

\* The host's undo: the commands of the step at the cursor, last one first
NativeUndo ==
    /\ ~inBody
    /\ uqueue.depth = 0
    /\ uqueue.cursor > 0
    /\ LET chunk == uqueue.q[uqueue.cursor]
           E == UndoChunk(Env(Graph, _modifier, <<>>), chunk, Len(chunk))
       IN /\ hslot' = E.G.node
          /\ scene' = SceneOf(E.G)
          /\ _modifier' = E.M
          /\ lastUndo' =
                CASE lastUndo.stage = "committed" ->
                        [lastUndo EXCEPT !.stage = "undone", !.log = @ \o E.log]
                  [] lastUndo.stage = "redone" ->
                        [lastUndo EXCEPT !.stage = "undone2", !.log = @ \o E.log]
                  [] OTHER -> NoUndo
    /\ uqueue' = [uqueue EXCEPT !.cursor = @ - 1]
    /\ lastCall' = NoCall
    /\ UNCHANGED <<wr, instances, NodeReuseCount, ROGUE_MODE, cplugs, crashed,
                   lastOp, lastRes>>
    /\ UNCHANGED <<SAFE_MODE, _opts, _history, _stowed, _attributesBeingAdded,
                   inBody, ncalls, called, didIt, nenters>>
    /\ UNCHANGED <<undoId, redoId, undos, redos, installed>>
    /\ UNCHANGED <<plugVars, arrayVars, typeVars>>

\* The host's redo: the commands of the step past the cursor, first one first
NativeRedo ==
    /\ ~inBody
    /\ uqueue.depth = 0
    /\ uqueue.cursor < Len(uqueue.q)
    /\ LET chunk == uqueue.q[uqueue.cursor + 1]
           E == RedoChunk(Env(Graph, _modifier, <<>>), chunk, 1)
       IN /\ hslot' = E.G.node
          /\ scene' = SceneOf(E.G)
          /\ _modifier' = E.M
          /\ lastUndo' =
                CASE lastUndo.stage = "undone" ->
                        [lastUndo EXCEPT !.stage = "redone", !.log = @ \o E.log]
                  [] OTHER -> NoUndo
    /\ uqueue' = [uqueue EXCEPT !.cursor = @ + 1]
    /\ lastCall' = NoCall
    /\ UNCHANGED <<wr, instances, NodeReuseCount, ROGUE_MODE, cplugs, crashed,
                   lastOp, lastRes>>
    /\ UNCHANGED <<SAFE_MODE, _opts, _history, _stowed, _attributesBeingAdded,
                   inBody, ncalls, called, didIt, nenters>>
    /\ UNCHANGED <<undoId, redoId, undos, redos, installed>>
    /\ UNCHANGED <<plugVars, arrayVars, typeVars>>

\* maya.cmds.createNode: an undoable host command that is not cmdx's
cmds_createNode(s) ==
    /\ hslot[s] = "free"
    /\ uqueue.cursor < MaxQueue \/ (uqueue.depth > 0 /\ uqueue.started)
    /\ hslot' = [hslot EXCEPT ![s] = "alive"]
    /\ uqueue' = Push(uqueue, CreateCmd(s))
    /\ undos' = AfterDel(undos, Pushed(uqueue), "u")
    /\ redos' = AfterDel(redos, Pushed(uqueue), "r")
    /\ lastUndo' = IF inBody THEN lastUndo ELSE NoUndo
    /\ lastCall' = NoCall
    /\ UNCHANGED <<wr, instances, NodeReuseCount, ROGUE_MODE, cplugs, crashed,
                   lastOp, lastRes>>
    /\ UNCHANGED <<SAFE_MODE, _opts, _modifier, _history, _stowed,
                   _attributesBeingAdded, inBody, ncalls, called, didIt,
                   nenters>>
    /\ UNCHANGED <<sceneVars, undoId, redoId, installed, plugVars, arrayVars, typeVars>>

\* ------------------------------------------------------------------------
\* The transaction: _BaseModifier and DagModifier
\* ------------------------------------------------------------------------

\* Mutant: the host modifier puts a new operation ahead of the queued ones
Queue_Front(M, o) == [M EXCEPT !.ops = <<o>> \o @]

\* self._modifier.<operation>(...): the host modifier queues the operation
Queue(M, o) == [M EXCEPT !.ops = Append(@, o)]

\* Mutant: no call is ever put on _history
record_history_Off(names) == _history

\* @record_history: a no-op in safe mode, else the call is put on _history
\* before the method runs
record_history(names) == IF SAFE_MODE THEN _history ELSE _history \o names

\* What every edit method leaves behind: the graph G and host modifier M it
\* ends with, its entries in the history, and what was seen of the call
EditCall(m, res, G, M, names, seen) ==
    /\ hslot' = G.node
    /\ scene' = SceneOf(G)
    /\ _modifier' = M
    /\ _history' = record_history(names)
    /\ called' = called \o names
    /\ ncalls' = ncalls + 1
    /\ lastCall' = [seen EXCEPT !.m = m, !.res = res,
                                !.ran = M.done - _modifier.done]
    /\ lastUndo' = IF inBody THEN lastUndo ELSE NoUndo
    /\ UNCHANGED <<SAFE_MODE, _opts, inBody, didIt, nenters>>
    /\ UNCHANGED <<undoId, redoId, undos, redos, installed, uqueue>>
    /\ UNCHANGED <<plugVars, arrayVars, typeVars>>
    /\ UNCHANGED <<NodeReuseCount, ROGUE_MODE, cplugs, crashed, lastOp, lastRes>>

\* The call queued these operations and flushed after the first `at` of them
Seen(queued, at) == [NoCall EXCEPT !.queued = queued, !.flushAt = at]

\* createNode(type): the host modifier allocates the node and queues its
\* creation, the queue is flushed at once, and the node is wrapped with
\* Node(mobj, exists=False)
mod_createNode(s) ==
    /\ ncalls < MaxCalls
    /\ hslot[s] = "free"
    /\ FreeIds # {}
    /\ LET G == [Graph EXCEPT !.node[s] = "removed"]
           M == Queue(_modifier, Op("createNode", s, 0, ncalls + 1))
           R == MDGModifier_doIt(G, M)
       IN /\ EditCall("createNode", IF R.ok THEN "ok" ELSE "RuntimeError",
                      R.G, R.M, <<"createNode">>, Seen(<<"createNode">>, 1))
          /\ IF R.ok
             THEN \E K \in SUBSET ({instances[s]} \ {0}) :
                    LET w == NewId
                        inst == [instances EXCEPT ![s] = w]
                        wrs == [Kept(wr, K) EXCEPT ![w] = NewWrapper(s)]
                    IN /\ instances' = inst
                       /\ wr' = Collect(wrs, inst, cplugs)
             ELSE UNCHANGED <<wr, instances>>
    /\ UNCHANGED <<_stowed, _attributesBeingAdded>>

\* deleteNode(node): ExistError unless the node is in the scene; else the
\* deletion is queued and the queue flushed at once
mod_deleteNode(n) ==
    /\ ncalls < MaxCalls
    /\ isValid(n)
    /\ IF ~_isalive(n)
       THEN EditCall("deleteNode", "ExistError", Graph, _modifier,
                     <<"deleteNode">>, NoCall)
       ELSE LET M == Queue(_modifier, Op("deleteNode", n, 0, ncalls + 1))
                R == MDGModifier_doIt(Graph, M)
            IN EditCall("deleteNode", IF R.ok THEN "ok" ELSE "RuntimeError",
                        R.G, R.M, <<"deleteNode">>, Seen(<<"deleteNode">>, 1))
    /\ UNCHANGED <<wr, instances, _stowed, _attributesBeingAdded>>

\* renameNode(node, name): queued; safe mode asserts the node is in the scene
mod_renameNode(n) ==
    /\ ncalls < MaxCalls
    /\ isValid(n)
    /\ IF SAFE_MODE /\ ~_isalive(n)
       THEN EditCall("renameNode", "AssertionError", Graph, _modifier,
                     <<"renameNode">>, NoCall)
       ELSE EditCall("renameNode", "ok", Graph,
                     Queue(_modifier, Op("renameNode", n, 0, ncalls + 1)),
                     <<"renameNode">>, Seen(<<"renameNode">>, -1))
    /\ UNCHANGED <<wr, instances, _stowed, _attributesBeingAdded>>

\* Mutant: the flush happens in either mode
SafeFlush_Always(G, M) == MDGModifier_doIt(G, M)

\* The implicit flush of the edit methods that flush in safe mode only
SafeFlush(G, M) ==
    IF SAFE_MODE THEN MDGModifier_doIt(G, M) ELSE [G |-> G, M |-> M, ok |-> TRUE]

InSeq(x, sq) == \E i \in 1..Len(sq) : sq[i] = x

\* Mutant: addAttr does not look at the attributes being added
mod_addAttr_NoPendingCheck(n) ==
    /\ ncalls < MaxCalls
    /\ isValid(n)
    /\ IF SAFE_MODE /\ ~_isalive(n)
       THEN /\ EditCall("addAttr", "AssertionError", Graph, _modifier,
                        <<"addAttr">>, NoCall)
            /\ UNCHANGED _attributesBeingAdded
       ELSE IF n \in scene.dyn
       THEN /\ EditCall("addAttr", "ExistError", Graph, _modifier,
                        <<"addAttr">>, NoCall)
            /\ UNCHANGED _attributesBeingAdded
       ELSE LET M == Queue(_modifier, Op("addAttribute", n, 0, ncalls + 1))
                R == SafeFlush(Graph, M)
            IN /\ EditCall("addAttr", IF R.ok THEN "ok" ELSE "RuntimeError",
                           R.G, R.M, <<"addAttr">>,
                           Seen(<<"addAttribute">>, IF SAFE_MODE THEN 1 ELSE -1))
               /\ _attributesBeingAdded' = Append(_attributesBeingAdded, n)
    /\ UNCHANGED <<wr, instances, _stowed>>

\* addAttr(node, attr): ExistError when the node has the attribute or the
\* transaction is about to add it; else queued and noted as being added
mod_addAttr(n) ==
    /\ ncalls < MaxCalls
    /\ isValid(n)
    /\ IF SAFE_MODE /\ ~_isalive(n)
       THEN /\ EditCall("addAttr", "AssertionError", Graph, _modifier,
                        <<"addAttr">>, NoCall)
            /\ UNCHANGED _attributesBeingAdded
       ELSE IF n \in scene.dyn \/ InSeq(n, _attributesBeingAdded)
       THEN /\ EditCall("addAttr", "ExistError", Graph, _modifier,
                        <<"addAttr">>, NoCall)
            /\ UNCHANGED _attributesBeingAdded
       ELSE LET M == Queue(_modifier, Op("addAttribute", n, 0, ncalls + 1))
                R == SafeFlush(Graph, M)
            IN /\ EditCall("addAttr", IF R.ok THEN "ok" ELSE "RuntimeError",
                           R.G, R.M, <<"addAttr">>,
                           Seen(<<"addAttribute">>, IF SAFE_MODE THEN 1 ELSE -1))
               /\ _attributesBeingAdded' = Append(_attributesBeingAdded, n)
    /\ UNCHANGED <<wr, instances, _stowed>>

\* deleteAttr(plug) on the dynamic attribute of n
mod_deleteAttr(n) ==
    /\ ncalls < MaxCalls
    /\ isValid(n)
    /\ n \in scene.dyn
    /\ IF SAFE_MODE /\ ~_isalive(n)
       THEN EditCall("deleteAttr", "AssertionError", Graph, _modifier,
                     <<"deleteAttr">>, NoCall)
       ELSE LET M == Queue(_modifier, Op("removeAttribute", n, 0, ncalls + 1))
                R == SafeFlush(Graph, M)
            IN EditCall("deleteAttr", IF R.ok THEN "ok" ELSE "RuntimeError",
                        R.G, R.M, <<"deleteAttr">>,
                        Seen(<<"removeAttribute">>, IF SAFE_MODE THEN 1 ELSE -1))
    /\ UNCHANGED <<wr, instances, _stowed, _attributesBeingAdded>>

\* Plug.editable: MPlug.isFreeToChange, neither locked nor driven
editable(G, n) == <<n, "ty">> \notin G.lock /\ Incoming(G, n) = {}

\* setAttr(plug, value) on n.ty: LockedError unless the plug is editable
mod_setAttr(n, v) ==
    /\ ncalls < MaxCalls
    /\ isValid(n)
    /\ IF ~editable(Graph, n)
       THEN EditCall("setAttr", "LockedError", Graph, _modifier,
                     <<"setAttr">>, NoCall)
       ELSE LET M == Queue(_modifier, Op("setAttr", n, v, ncalls + 1))
                R == SafeFlush(Graph, M)
            IN EditCall("setAttr", IF R.ok THEN "ok" ELSE "RuntimeError",
                        R.G, R.M, <<"setAttr">>,
                        Seen(<<"setAttr">>, IF SAFE_MODE THEN 1 ELSE -1))
    /\ UNCHANGED <<wr, instances, _stowed, _attributesBeingAdded>>

\* The elements of a finite set in some order
RECURSIVE SeqOf(_)
SeqOf(S) ==
    IF S = {} THEN <<>>
    ELSE LET x == CHOOSE y \in S : TRUE IN <<x>> \o SeqOf(S \ {x})

RECURSIVE QueueAll(_, _)
QueueAll(M, os) == IF os = <<>> THEN M ELSE QueueAll(Queue(M, Head(os)), Tail(os))

\* Mutant: the disconnects stay queued and the connection is queued right
\* behind them
mod_connect_NoFlush(s, d, force) ==
    /\ ncalls < MaxCalls
    /\ isValid(s) /\ isValid(d)
    /\ IF <<d, "ty">> \in scene.lock
       THEN EditCall("connect", "LockedError", Graph, _modifier, <<"connect">>,
                     [NoCall EXCEPT !.force = force, !.inc = Incoming(Graph, d) # {}])
       ELSE LET inc == IF force THEN SeqOf(Incoming(Graph, d)) ELSE <<>>
                dis == [i \in 1..Len(inc) |-> Op("disconnect", inc[i][1], d, ncalls + 1)]
                M == QueueAll(_modifier, dis)
                R == [G |-> Graph, M |-> M, ok |-> TRUE]
                con == Op("connect", s, d, ncalls + 1)
            IN EditCall("connect", IF R.ok THEN "ok" ELSE "RuntimeError",
                        R.G, IF R.ok THEN Queue(R.M, con) ELSE R.M,
                        <<"connect">> \o [i \in 1..Len(inc) |-> "disconnect"],
                        [NoCall EXCEPT
                            !.force = force,
                            !.inc = Incoming(Graph, d) # {},
                            !.queued = [i \in 1..Len(inc) |-> "disconnect"]
                                       \o (IF R.ok THEN <<"connect">> ELSE <<>>),
                            !.flushAt = -1])
    /\ UNCHANGED <<wr, instances, _stowed, _attributesBeingAdded>>

\* connect(src, dst, force) from s.tx to d.ty: LockedError on a locked
\* destination; with force every source now driving the destination is
\* disconnected through self.disconnect and, if there was one, the queue is
\* flushed; then the connection is queued
mod_connect(s, d, force) ==
    /\ ncalls < MaxCalls
    /\ isValid(s) /\ isValid(d)
    /\ IF <<d, "ty">> \in scene.lock
       THEN EditCall("connect", "LockedError", Graph, _modifier, <<"connect">>,
                     [NoCall EXCEPT !.force = force, !.inc = Incoming(Graph, d) # {}])
       ELSE LET inc == IF force THEN SeqOf(Incoming(Graph, d)) ELSE <<>>
                dis == [i \in 1..Len(inc) |-> Op("disconnect", inc[i][1], d, ncalls + 1)]
                M == QueueAll(_modifier, dis)
                R == IF inc # <<>> THEN MDGModifier_doIt(Graph, M)
                     ELSE [G |-> Graph, M |-> M, ok |-> TRUE]
                con == Op("connect", s, d, ncalls + 1)
            IN EditCall("connect", IF R.ok THEN "ok" ELSE "RuntimeError",
                        R.G, IF R.ok THEN Queue(R.M, con) ELSE R.M,
                        <<"connect">> \o [i \in 1..Len(inc) |-> "disconnect"],
                        [NoCall EXCEPT
                            !.force = force,
                            !.inc = Incoming(Graph, d) # {},
                            !.queued = [i \in 1..Len(inc) |-> "disconnect"]
                                       \o (IF R.ok THEN <<"connect">> ELSE <<>>),
                            !.flushAt = IF inc # <<>> THEN Len(inc) ELSE -1])
    /\ UNCHANGED <<wr, instances, _stowed, _attributesBeingAdded>>

\* disconnect(a, b) with a = s.tx and b = d.ty: a disconnect is queued for
\* the connection between the two, if the host has one
mod_disconnect(s, d) ==
    /\ ncalls < MaxCalls
    /\ isValid(s) /\ isValid(d)
    /\ LET hit == <<s, d>> \in scene.conns
           M == IF hit THEN Queue(_modifier, Op("disconnect", s, d, ncalls + 1))
                ELSE _modifier
       IN EditCall("disconnect", "ok", Graph, M, <<"disconnect">>,
                   Seen(IF hit THEN <<"disconnect">> ELSE <<>>, -1))
    /\ UNCHANGED <<wr, instances, _stowed, _attributesBeingAdded>>

\* The list a request is stowed in and the flag it is about
StowList(k) ==
    CASE k = "keyable" -> "keyableAttrs"
      [] k = "nice" -> "niceNames"
      [] k = "lock" -> "lockAttrs"

StowMethod(k) ==
    CASE k = "keyable" -> "setKeyable"
      [] k = "nice" -> "setNiceName"
      [] k = "lock" -> "setLocked"

FlagKinds == {"keyable", "nice", "lock"}

\* The attributes the client asks a flag for
StowAttrs(k) == IF k = "nice" THEN {"ty", "dyn"} ELSE {"ty"}

\* The host has plug <<n, attr>>
PlugExists(G, n, attr) == G.node[n] = "alive" /\ (attr = "dyn" => n \in G.dyn)

\* setKeyable, setNiceName, setLocked(plug, value): the request is stowed
mod_stow(k, n, attr, v) ==
    /\ ncalls < MaxCalls
    /\ PlugExists(Graph, n, attr)
    /\ _stowed' = [_stowed EXCEPT ![StowList(k)] = Append(@, [n |-> n, attr |-> attr, v |-> v])]
    /\ EditCall(StowMethod(k), "ok", Graph, _modifier, <<StowMethod(k)>>, NoCall)
    /\ UNCHANGED <<wr, instances, _attributesBeingAdded>>

\* Mutant: a failing doIt raises without rolling anything back
doIt_NoRollback(G, M) == MDGModifier_doIt(G, M)

\* _BaseModifier.doIt up to the raise: the host modifier's doIt and, when
\* it fails on an atomic transaction, the host modifier's undoIt
doIt(G, M) ==
    LET R == MDGModifier_doIt(G, M)
    IN IF R.ok \/ ~_opts.atomic THEN R
       ELSE [G |-> MDGModifier_undoIt(R.G, R.M).G,
             M |-> MDGModifier_undoIt(R.G, R.M).M,
             ok |-> FALSE]

\* The error a failing doIt raises carries self._history
Raised(m) == [NoCall EXCEPT !.m = m, !.res = "ModifierError", !.history = _history]

Returned(m) == [NoCall EXCEPT !.m = m, !.res = "ok"]

\* mod.doIt() called by the client
mod_doIt ==
    /\ LET R == doIt(Graph, _modifier)
       IN /\ hslot' = R.G.node
          /\ scene' = SceneOf(R.G)
          /\ _modifier' = R.M
          /\ IF R.ok
             THEN /\ _history' = <<>>
                  /\ called' = <<>>
                  /\ _attributesBeingAdded' = <<>>
                  /\ lastCall' = [Returned("doIt") EXCEPT !.ran = R.M.done - _modifier.done]
                  /\ didIt' = (didIt \/ R.M.done > _modifier.done)
             ELSE /\ lastCall' = Raised("doIt")
                  /\ UNCHANGED <<_history, called, _attributesBeingAdded, didIt>>
    /\ lastUndo' = IF inBody THEN lastUndo ELSE NoUndo
    /\ UNCHANGED <<SAFE_MODE, _opts, _stowed, inBody, ncalls, nenters>>
    /\ UNCHANGED <<undoId, redoId, undos, redos, installed, uqueue>>
    /\ UNCHANGED <<plugVars, arrayVars, typeVars>>
    /\ UNCHANGED <<wr, instances, NodeReuseCount, ROGUE_MODE, cplugs, crashed,
                   lastOp, lastRes>>

\* cmds.undoInfo(openChunk=True) and cmds.undoInfo(closeChunk=True)
OpenChunk(Q) == [Q EXCEPT !.depth = @ + 1]

CloseChunk(Q) ==
    IF Q.depth = 0 THEN Q
    ELSE [Q EXCEPT !.depth = @ - 1,
                   !.started = IF Q.depth = 1 THEN FALSE ELSE @]

\* The closures __exit__ defines are new function objects: their ids are
\* ids no live closure has
FreeClosures ==
    {k \in ClosureIds : <<"undoit", k>> \notin undos /\ <<"redoit", k>> \notin redos}

NewClosure == CHOOSE k \in FreeClosures : \A j \in FreeClosures : k <= j

\* __enter__: an undoable transaction opens an undo chunk
mod_enter ==
    /\ ~inBody
    /\ nenters < MaxEnters
    /\ nenters' = nenters + 1
    /\ FreeClosures # {}
    /\ uqueue.depth < MaxQueue
    /\ uqueue.cursor < MaxQueue \/ uqueue.started
    /\ inBody' = TRUE
    /\ uqueue' = IF _opts.undoable THEN OpenChunk(uqueue) ELSE uqueue
    /\ lastUndo' = [NoUndo EXCEPT !.kind = "context", !.stage = "in", !.pre = Visible(Graph)]
    /\ lastCall' = NoCall
    /\ UNCHANGED <<cacheVars, sceneVars>>
    /\ UNCHANGED <<SAFE_MODE, _opts, _modifier, _history, _stowed,
                   _attributesBeingAdded, ncalls, called, didIt>>
    /\ UNCHANGED <<undoId, redoId, undos, redos, installed>>
    /\ UNCHANGED <<plugVars, arrayVars, typeVars>>

\* What __exit__ has got to while it runs: the graph, the undo queue, the
\* closure tables, the stowed requests not handled yet, the first error
Exiting(G, Q, us, rs, st, ok) ==
    [G |-> G, Q |-> Q, us |-> us, rs |-> rs, st |-> st, ok |-> ok]

\* _doKeyableAttrs, _doNiceNames, _doLockAttrs: each request is popped and
\* applied with an undoable maya.cmds call, except a nice name on a static
\* attribute, which is set through MFnAttribute.setNiceNameOverride
RECURSIVE _doAttrs(_, _)
_doAttrs(X, k) ==
    IF ~X.ok \/ X.st[StowList(k)] = <<>> THEN X
    ELSE LET req == Head(X.st[StowList(k)])
             st == [X.st EXCEPT ![StowList(k)] = Tail(@)]
             old == <<req.n, req.attr>> \in X.G[k]
             G == SetFlag(X.G, k, req.n, req.attr, req.v)
         IN IF ~PlugExists(X.G, req.n, req.attr)
            THEN Exiting(X.G, X.Q, X.us, X.rs, st, FALSE)
            ELSE IF k = "nice" /\ req.attr # "dyn"
            THEN _doAttrs(Exiting(G, X.Q, X.us, X.rs, st, TRUE), k)
            ELSE _doAttrs(
                    Exiting(G,
                            Push(X.Q, FlagCmd(k, req.n, req.attr, req.v, old)),
                            AfterDel(X.us, Pushed(X.Q), "u"),
                            AfterDel(X.rs, Pushed(X.Q), "r"),
                            st, TRUE),
                    k)

\* The tail of __exit__ once redoIt went through: commit(undoit, redoit) on
\* an undoable transaction, then the stowed requests
AfterRedoIt(G, ok) ==
    LET C == IF _opts.undoable
             THEN install(ok, Committed(undos, redos, uqueue,
                                        <<"undoit", NewClosure>>,
                                        <<"redoit", NewClosure>>))
             ELSE Uncommitted
        X == Exiting(G, C.uqueue, C.undos, C.redos, _stowed, ok)
        Y == _doAttrs(_doAttrs(_doAttrs(X, "keyable"), "nice"), "lock")
    IN [G |-> Y.G, Q |-> Y.Q, us |-> Y.us, rs |-> Y.rs, st |-> Y.st, ok |-> Y.ok,
        undoId |-> C.undoId, redoId |-> C.redoId]

\* __exit__ after the body completed: redoIt, commit, the stowed requests,
\* and in any case the chunk is closed
mod_exit ==
    /\ inBody
    /\ inBody' = FALSE
    /\ LET R == doIt(Graph, _modifier)
       IN /\ _modifier' = R.M
          /\ IF ~R.ok
             THEN /\ hslot' = R.G.node
                  /\ scene' = SceneOf(R.G)
                  /\ uqueue' = IF _opts.undoable THEN CloseChunk(uqueue) ELSE uqueue
                  /\ lastCall' = Raised("exit")
                  /\ lastUndo' = NoUndo
                  /\ UNCHANGED <<_history, called, _attributesBeingAdded, _stowed,
                                 undos, redos, installed, didIt, undoId, redoId>>
             ELSE \E ok \in (IF _opts.undoable THEN InstallOutcomes ELSE {TRUE}) :
                    LET X == AfterRedoIt(R.G, ok)
                    IN /\ hslot' = X.G.node
                       /\ scene' = SceneOf(X.G)
                       /\ uqueue' = IF _opts.undoable THEN CloseChunk(X.Q) ELSE X.Q
                       /\ undos' = X.us
                       /\ redos' = X.rs
                       /\ undoId' = X.undoId
                       /\ redoId' = X.redoId
                       /\ _stowed' = X.st
                       /\ installed' = (installed \/ (_opts.undoable /\ ok))
                       /\ _history' = <<>>
                       /\ called' = <<>>
                       /\ _attributesBeingAdded' = <<>>
                       /\ didIt' = (didIt \/ R.M.done > _modifier.done)
                       /\ lastCall' = [Returned("exit") EXCEPT
                                          !.res = IF X.ok THEN "ok" ELSE "RuntimeError",
                                          !.ran = R.M.done - _modifier.done]
                       /\ lastUndo' =
                            IF X.ok /\ _opts.undoable
                            THEN [lastUndo EXCEPT !.stage = "committed",
                                                  !.f = <<"undoit", NewClosure>>,
                                                  !.g = <<"redoit", NewClosure>>,
                                                  !.post = Visible(X.G)]
                            ELSE NoUndo
    /\ UNCHANGED <<SAFE_MODE, _opts, ncalls, nenters, plugVars, arrayVars, typeVars>>
    /\ UNCHANGED <<wr, instances, NodeReuseCount, ROGUE_MODE, cplugs, crashed,
                   lastOp, lastRes>>

\* __exit__ after the body raised: it returns at once
mod_exit_raised ==
    /\ inBody
    /\ inBody' = FALSE
    /\ lastUndo' = NoUndo
    /\ lastCall' = NoCall
    /\ UNCHANGED <<cacheVars, sceneVars>>
    /\ UNCHANGED <<SAFE_MODE, _opts, _modifier, _history, _stowed,
                   _attributesBeingAdded, ncalls, called, didIt, nenters>>
    /\ UNCHANGED <<undoId, redoId, undos, redos, installed, uqueue>>
    /\ UNCHANGED <<plugVars, arrayVars, typeVars>>

\* The transaction is constructed in a scene that has a node already, with
\* or without a connection from its tx to its ty
ModInit ==
    /\ hslot = [s \in Slots |-> IF s = 1 THEN "alive" ELSE "free"]
    /\ wr = [w \in WrapperIds |-> NoWrapper]
    /\ instances = [s \in Slots |-> 0]
    /\ NodeReuseCount = 0
    /\ cplugs = {}
    /\ crashed = FALSE
    /\ lastOp = NoOp
    /\ lastRes = NoRes
    /\ ROGUE_MODE = FALSE
    /\ scene \in {NoScene, [NoScene EXCEPT !.conns = {<<1, 1>>}]}
    /\ SAFE_MODE \in BOOLEAN
    /\ _opts \in [atomic : BOOLEAN, undoable : BOOLEAN]
    /\ ModEmpty
    /\ UndoInit
    /\ PlugEmpty
    /\ ArrayEmpty
    /\ TypeEmpty

ModNext ==
    \/ \E s \in Slots : mod_createNode(s)
    \/ \E n \in Slots : mod_deleteNode(n)
    \/ \E n \in Slots : mod_renameNode(n)
    \/ \E n \in Slots : mod_addAttr(n)
    \/ \E n \in Slots : mod_deleteAttr(n)
    \/ \E n \in Slots, v \in Vals \ {0} : mod_setAttr(n, v)
    \/ \E s \in Slots, d \in Slots, force \in BOOLEAN : mod_connect(s, d, force)
    \/ \E s \in Slots, d \in Slots : mod_disconnect(s, d)
    \/ \E k \in FlagKinds : \E n \in Slots, attr \in StowAttrs(k) : mod_stow(k, n, attr, TRUE)
    \/ mod_doIt
    \/ mod_enter
    \/ mod_exit
    \/ mod_exit_raised
    \/ \E s \in Slots : cmds_createNode(s)
    \/ NativeUndo
    \/ NativeRedo

SpecMod == ModInit /\ [][ModNext]_vars

UndoRunInit ==
    /\ CacheEmpty
    /\ ROGUE_MODE = FALSE
    /\ SceneInit
    /\ ModDefault
    /\ UndoInit
    /\ PlugEmpty
    /\ ArrayEmpty
    /\ TypeEmpty

UndoNext ==
    \/ \E u \in UserFns, r \in UserFns \cup {DefaultRedo} : commit(u, r)
    \/ \E s \in Slots : cmds_createNode(s)
    \/ NativeUndo
    \/ NativeRedo
    \/ clear

SpecUndo == UndoRunInit /\ [][UndoNext]_vars

CacheNext ==
    \/ \E s \in Slots : HostCreate(s)
    \/ \E s \in Slots : HostRemove(s)
    \/ \E s \in Slots : HostRestore(s)
    \/ \E s \in Slots : HostDestroy(s)
    \/ \E s \in Slots : ResolveReuse(s)
    \/ \E s \in Slots : ResolveNew(s)
    \/ \E s \in Slots : ResolveInvalid(s)
    \/ \E s \in Slots : createNode(s)
    \/ clear
    \/ \E w \in WrapperIds : Release(w)
    \/ \E w \in WrapperIds, op \in {"name", "path"} : NodeMethod(w, op)
    \/ \E w \in WrapperIds, known \in BOOLEAN : getitem(w, known)
    \/ \E p \in cplugs, op \in {"read", "write"} : PlugAccess(p, op)
    \/ \E p \in cplugs : ReleasePlug(p)

SpecCache == CacheInit /\ [][CacheNext]_vars

\* Resolutions and commits, and the teardown of both
ClearNext ==
    \/ \E s \in Slots : HostCreate(s)
    \/ \E s \in Slots : ResolveNew(s)
    \/ \E s \in Slots : ResolveReuse(s)
    \/ \E u \in UserFns, r \in UserFns \cup {DefaultRedo} : commit(u, r)
    \/ clear

SpecClear == UndoRunInit /\ [][ClearNext]_vars

\* ------------------------------------------------------------------------
\* Reading and writing a channel, and the values a node caches
\* ------------------------------------------------------------------------

\* _plug_to_python on a distance attribute: the host's centimetres as
\* centimetres when no unit is given, else in the unit
_plug_to_python(cm, unit) == IF unit = "Millimeters" THEN cm * 10 ELSE cm

\* unit(value) in Node.__setitem__: an MDistance of that many units, which
\* the host stores in centimetres
AsCentimeters(v, unit) == IF unit = "Millimeters" THEN v \div 10 ELSE v

\* The numbers a client writes in a unit
WriteVals(unit) == IF unit = "Millimeters" THEN {10, 20} ELSE {1, 2}

\* An access as observed: the operation, the key and unit it went by, the
\* number given (v) and what the host got in centimetres (cm), the result
\* (res, kind), and whether the host was asked
Access(op, k, u, v, cm, res, kind, host) ==
    [op |-> op, k |-> k, u |-> u, v |-> v, cm |-> cm,
     res |-> res, kind |-> kind, host |-> host]

\* Mutant: the values are cached by key alone
CacheKey_NameOnly(k, u) == <<k, NoUnit>>

\* self._state["values"][key, unit]
CacheKey(k, u) == <<k, u>>

\* What the channel actions leave alone
PlugFrame ==
    UNCHANGED <<cacheVars, sceneVars, modVars, undoVars, arrayVars, typeVars>>

\* node[k] or node[k, u]: a Plug with the key and the unit
Node_getitem(k, u) ==
    /\ pheld' = [_key |-> k, _unit |-> u, _cached |-> Missing]
    /\ UNCHANGED <<mvalue, values, plog>>
    /\ PlugFrame

\* Plug.read() on the Plug the client holds: the host is asked; its answer
\* is stored under (key, unit) and returned, its failure is passed on
Plug_read(fails) ==
    /\ Len(plog) < MaxOps
    /\ pheld # NoPlug
    /\ IF fails
       THEN /\ plog' = Append(plog, Access("read", pheld._key, pheld._unit, Missing,
                                           Missing, Missing, "RuntimeError", TRUE))
            /\ UNCHANGED values
       ELSE LET value == _plug_to_python(mvalue, pheld._unit)
            IN /\ values' = [values EXCEPT ![CacheKey(pheld._key, pheld._unit)] = value]
               /\ plog' = Append(plog, Access("read", pheld._key, pheld._unit, Missing,
                                              Missing, value, "value", TRUE))
    /\ UNCHANGED <<mvalue, pheld>>
    /\ PlugFrame

\* Plug.write(v) with a number on the Plug the client holds:
\* _python_to_plug hands it to the host as it is, then self._cached = v
Plug_write(v) ==
    /\ Len(plog) < MaxOps
    /\ pheld # NoPlug
    /\ mvalue' = v
    /\ pheld' = [pheld EXCEPT !._cached = v]
    /\ plog' = Append(plog, Access("write", pheld._key, pheld._unit, v, v,
                                   Missing, "none", TRUE))
    /\ UNCHANGED values
    /\ PlugFrame

\* node[k] = v or node[k, u] = v: with a unit the number becomes a distance
\* in that unit; a Plug is made for the key and written to
Node_setitem(k, u, v) ==
    /\ Len(plog) < MaxOps
    /\ mvalue' = AsCentimeters(v, u)
    /\ plog' = Append(plog, Access("setitem", k, u, v, AsCentimeters(v, u),
                                   Missing, "none", TRUE))
    /\ UNCHANGED <<values, pheld>>
    /\ PlugFrame

\* node[k, Cached] or node[k, u, Cached]: the value stored under (key, unit)
\* as a CachedPlug; on KeyError a Plug as from node[k, u]
Node_getitem_cached(k, u) ==
    /\ Len(plog) < MaxOps
    /\ IF values[CacheKey(k, u)] # Missing
       THEN /\ plog' = Append(plog, Access("lookup", k, u, Missing, Missing,
                                           values[CacheKey(k, u)], "cached", FALSE))
            /\ UNCHANGED pheld
       ELSE /\ plog' = Append(plog, Access("lookup", k, u, Missing, Missing,
                                           Missing, "live", TRUE))
            /\ pheld' = [_key |-> k, _unit |-> u, _cached |-> Missing]
    /\ UNCHANGED <<mvalue, values>>
    /\ PlugFrame

\* Node.clear(): the cached values are dropped
Node_clear ==
    /\ Len(plog) < MaxOps
    /\ values' = [k \in PlugKeys |-> Missing]
    /\ plog' = Append(plog, Access("clear", "", NoUnit, Missing, Missing,
                                   Missing, "none", FALSE))
    /\ UNCHANGED <<mvalue, pheld>>
    /\ PlugFrame

PlugInit ==
    /\ CacheEmpty
    /\ ROGUE_MODE = FALSE
    /\ SceneInit
    /\ ModDefault
    /\ UndoInit
    /\ PlugEmpty
    /\ ArrayEmpty
    /\ TypeEmpty

PlugNext ==
    \/ \E k \in Names, u \in Units : Node_getitem(k, u)
    \/ \E fails \in BOOLEAN : Plug_read(fails)
    \/ \E v \in WriteVals(NoUnit) : Plug_write(v)
    \/ \E u \in Units : \E v \in WriteVals(u) : Node_setitem("tx", u, v)
    \/ \E k \in Names, u \in Units : Node_getitem_cached(k, u)
    \/ Node_clear

SpecPlug == PlugInit /\ [][PlugNext]_vars


\* ------------------------------------------------------------------------
\* An array channel: elements by logical index
\* ------------------------------------------------------------------------

\* The logical indices the client uses, and the plugs it connects to them
Indices == 0..MaxIndex

Sources == 1..(MaxIndex + 1)

\* An element plug of the array: its logical index and the source connected
\* to it, 0 for none
Element(ix, src) == [ix |-> ix, src |-> src]

\* Mutant: the element is taken by its position among the existing ones
elementByPhysicalIndex(A, i) ==
    IF i + 1 \in 1..Len(A) THEN A[i + 1] ELSE Element(i, 0)

\* MPlug.elementByLogicalIndex(i): the element with that logical index,
\* whether the array has it yet or not
elementByLogicalIndex(A, i) ==
    IF \E p \in 1..Len(A) : A[p].ix = i
    THEN A[CHOOSE p \in 1..Len(A) : A[p].ix = i]
    ELSE Element(i, 0)

\* Plug.count(): MPlug.evaluateNumElements
count(A) == Len(A)

\* Plug.__getitem__(logicalIndex) on an array plug; a negative index counts
\* back from count()
Plug_getitem(A, logicalIndex) ==
    IF logicalIndex < 0
    THEN elementByLogicalIndex(A, count(A) - (-logicalIndex))
    ELSE elementByLogicalIndex(A, logicalIndex)

\* Plug.arrayIndices: MPlug.getExistingArrayAttributeIndices
arrayIndices(A) == [p \in 1..Len(A) |-> A[p].ix]

\* Plug.connection() of an element
connection(e) == e.src

\* The host's array without the element of logical index ix
Without(A, ix) == SelectSeq(A, LAMBDA e : e.ix # ix)

\* The host's array once src drives the element of logical index ix: the
\* elements stay in the order of their logical indices
With(A, ix, src) ==
    SelectSeq(A, LAMBDA e : e.ix < ix)
        \o <<Element(ix, src)>>
        \o SelectSeq(A, LAMBDA e : e.ix > ix)

ArrayFrame ==
    UNCHANGED <<cacheVars, sceneVars, modVars, undoVars, plugVars, typeVars>>

\* plug[i] << source: Plug.connect with force, which disconnects whatever
\* drives the element and connects the source, in one host modifier
array_connect(i, src) ==
    /\ Len(alog) < MaxEdits
    /\ LET e == Plug_getitem(marray, i)
       IN marray' = With(marray, e.ix, src)
    /\ alog' = Append(alog, [op |-> "connect", ix |-> i, src |-> src])
    /\ ArrayFrame

\* plug[i].disconnect(): the host drops the connection and, with it, the
\* element
array_disconnect(i) ==
    /\ Len(alog) < MaxEdits
    /\ LET e == Plug_getitem(marray, i)
       IN marray' = Without(marray, e.ix)
    /\ alog' = Append(alog, [op |-> "disconnect", ix |-> i, src |-> 0])
    /\ ArrayFrame

ArrayNext ==
    \/ \E i \in Indices, src \in Sources : array_connect(i, src)
    \/ \E i \in Indices : array_disconnect(i)

SpecArray == PlugInit /\ [][ArrayNext]_vars

\* plug.append(value) with autofill off: the value goes to plug[count()],
\* connected with << when it is a Plug and written when it is not; either
\* way the host then has that element with the value as its content
Plug_append(value) ==
    /\ Len(alog) < MaxEdits
    /\ LET index == count(marray)
           e == Plug_getitem(marray, index)
       IN /\ marray' = With(marray, e.ix, value)
          /\ alog' = Append(alog, [op |-> "append", ix |-> index, src |-> value])
    /\ ArrayFrame

AppendNext ==
    \/ \E i \in Indices, src \in Sources : array_connect(i, src)
    \/ \E i \in Indices : array_disconnect(i)
    \/ \E value \in Sources : Plug_append(value)

SpecAppend == PlugInit /\ [][AppendNext]_vars

\* ------------------------------------------------------------------------
\* The class of the wrapper Singleton.__call__ constructs
\* ------------------------------------------------------------------------

\* Mutant: the class the caller invoked is instantiated
Construct_AsInvoked(cls, mobject) == cls

\* The class the metaclass instantiates for mobject when cls was invoked:
\* the first of the probes that answers True decides
Construct(cls, mobject) ==
    IF "kDagContainer" \in mobject THEN "ContainerNode"
    ELSE IF "kContainer" \in mobject THEN "ContainerNode"
    ELSE IF "kDagNode" \in mobject THEN "DagNode"
    ELSE IF "kSet" \in mobject THEN "ObjectSet"
    ELSE IF "kAnimCurve" \in mobject THEN "AnimCurve"
    ELSE "Node"

TypeFrame ==
    UNCHANGED <<cacheVars, sceneVars, modVars, undoVars, plugVars, arrayVars>>

\* cls(mobject, exists) on the live node: the entry of _instances is
\* returned when exists is set and there is one, else a wrapper is
\* constructed and put into _instances
Singleton_call(cls, exists) ==
    /\ IF exists /\ ofType # ""
       THEN /\ made' = [cls |-> cls, exists |-> exists, new |-> FALSE, type |-> ofType]
            /\ UNCHANGED ofType
       ELSE LET sup == Construct(cls, hasFn)
            IN /\ made' = [cls |-> cls, exists |-> exists, new |-> TRUE, type |-> sup]
               /\ ofType' = sup
    /\ UNCHANGED hasFn
    /\ TypeFrame

\* The node whose handle is wrapped has any of the function sets
TypeInit ==
    /\ CacheEmpty
    /\ ROGUE_MODE = FALSE
    /\ SceneInit
    /\ ModDefault
    /\ UndoInit
    /\ PlugEmpty
    /\ ArrayEmpty
    /\ hasFn \in SUBSET Fns
    /\ ofType = ""
    /\ made = NoNode

TypeNext == \E cls \in Classes, exists \in BOOLEAN : Singleton_call(cls, exists)

SpecType == TypeInit /\ [][TypeNext]_vars

\* ------------------------------------------------------------------------
\* Claims about the identity cache
\* ------------------------------------------------------------------------

C2_OneLiveWrapperPerHash ==
    \A a, b \in WrapperIds :
        (a # b /\ wr[a].used /\ wr[b].used /\ wr[a].slot = wr[b].slot)
            => (wr[a].destroyed \/ wr[b].destroyed)

DestroyedOps == {"name", "path", "getitem", "read", "write"}

C5_UndoThenRedoCallsFThenG ==
    lastUndo.kind = "commit" =>
        /\ lastUndo.stage = "undone" => lastUndo.log = <<lastUndo.f>>
        /\ lastUndo.stage = "redone" =>
              /\ lastUndo.log = <<lastUndo.f, lastUndo.g>>
              /\ undoId = None
              /\ redoId = None

\* ------------------------------------------------------------------------
\* Claims about the transaction
\* ------------------------------------------------------------------------

\* The nodes the transaction created
Created ==
    {_modifier.ops[i].a : i \in {j \in 1..Len(_modifier.ops) :
                                    _modifier.ops[j].t = "createNode"}}

\* C4: once a doIt of an atomic transaction has raised, no node created by
\* the transaction is in the scene.
C4_AtomicLeavesNoCreatedNode ==
    (_opts.atomic /\ lastCall.res = "ModifierError") =>
        \A n \in Created : hslot[n] # "alive"

\* doIt raised on an atomic transaction whose createNode had gone through
\* (the node was wrapped)
C4_Witness ==
    /\ _opts.atomic
    /\ lastCall.m = "doIt"
    /\ lastCall.res = "ModifierError"
    /\ \E n \in Created : instances[n] # 0 /\ hslot[n] = "removed"

\* C6: an undoable transaction used as a context manager whose body and exit
\* went through is one undo step: the native undo brings back the graph from
\* before the context, the redo the graph from after it, and the undo after
\* that the graph from before it again.
C6_ContextIsOneUndoStep ==
    lastUndo.kind = "context" =>
        /\ lastUndo.stage = "undone" => Visible(Graph) = lastUndo.pre
        /\ lastUndo.stage = "redone" => Visible(Graph) = lastUndo.post
        /\ lastUndo.stage = "undone2" => Visible(Graph) = lastUndo.pre

EditMethods ==
    {"createNode", "deleteNode", "renameNode", "addAttr", "deleteAttr",
     "setAttr", "connect", "disconnect"}

C9_AppliedInCallOrder ==
    \A i, j \in 1..Len(_modifier.ops) :
        _modifier.ops[i].seq < _modifier.ops[j].seq =>
            /\ i < j
            /\ j <= _modifier.done => i <= _modifier.done

\* Operations of two calls, both applied by one doIt
C9_Witness ==
    /\ lastCall.m = "doIt"
    /\ lastCall.ran >= 2
    /\ _modifier.ops[1].seq < _modifier.ops[Len(_modifier.ops)].seq
    /\ _modifier.done = Len(_modifier.ops)

\* C10: a forced connect onto a destination that is driven queues a
\* disconnect for each of its incoming connections and flushes the host
\* modifier right behind them, before it queues the connection; a connect
\* onto a destination that is not driven does not flush.
C10_ForcedConnectFlushesFirst ==
    (lastCall.m = "connect" /\ lastCall.res # "LockedError") =>
        /\ (lastCall.force /\ lastCall.inc) =>
              /\ lastCall.flushAt >= 1
              /\ \A i \in 1..lastCall.flushAt : lastCall.queued[i] = "disconnect"
              /\ lastCall.res = "ok" =>
                    /\ Len(lastCall.queued) = lastCall.flushAt + 1
                    /\ lastCall.queued[lastCall.flushAt + 1] = "connect"
                    /\ lastCall.ran >= lastCall.flushAt
              /\ lastCall.res # "ok" => Len(lastCall.queued) = lastCall.flushAt
        /\ ~lastCall.inc => lastCall.flushAt = -1

\* The forced connect went through: the disconnect is applied, the new
\* connection is pending
C10_Witness ==
    /\ lastCall.m = "connect"
    /\ lastCall.force /\ lastCall.inc
    /\ lastCall.res = "ok"
    /\ lastCall.ran >= 1
    /\ _modifier.done = Len(_modifier.ops) - 1
    /\ _modifier.ops[Len(_modifier.ops)].t = "connect"

\* C11: on an atomic transaction on which an earlier doIt went through, a
\* doIt that fails leaves the graph as it was right before that call: only
\* what the failing call applied is undone, the effects of the earlier doIt
\* remain.
C11_FailingDoItKeepsEarlierEffects ==
    [][(_opts.atomic /\ didIt
            /\ lastCall'.m = "doIt" /\ lastCall'.res = "ModifierError")
        => Visible(Graph)' = Visible(Graph)]_vars

\* C12: whenever no commit is running, shared.undoId and shared.redoId are
\* both None: the command's doIt runs inside commit, takes both ids and
\* empties the slot, so every commit finds the slot empty.
C12_SlotEmptyOutsideCommit == undoId = None /\ redoId = None

\* A commit went through: its command is on the queue with the ids it took
C12_Witness ==
    /\ lastUndo.kind = "commit"
    /\ lastUndo.stage = "committed"
    /\ uqueue.cursor > 0
    /\ \E i \in 1..Len(uqueue.q[uqueue.cursor]) :
          /\ uqueue.q[uqueue.cursor][i].kind = "api"
          /\ uqueue.q[uqueue.cursor][i].u = lastUndo.f
          /\ uqueue.q[uqueue.cursor][i].r = lastUndo.g
    /\ undoId = None
    /\ redoId = None

\* The commands of cmdx on the host's undo queue, by position
ApiCmds ==
    LET all == UNION {{<<i, j>> : j \in 1..Len(uqueue.q[i])} : i \in 1..Len(uqueue.q)}
    IN {p \in all : uqueue.q[p[1]][p[2]].kind = "api"}

\* C13: the ids a commit stores its closures under are fresh: any two
\* commands of cmdx that are both on the host's undo queue have different
\* undoIds and different redoIds, whatever closures were passed.
C13_CommitIdsAreFresh ==
    \A p, q \in ApiCmds :
        p # q => /\ uqueue.q[p[1]][p[2]].u # uqueue.q[q[1]][q[2]].u
                 /\ uqueue.q[p[1]][p[2]].r # uqueue.q[q[1]][q[2]].r

\* A step that resolves the handle of slot s and returns a wrapper
Resolved(s) ==
    /\ lastRes'.slot = s
    /\ lastRes'.w # 0
    /\ lastRes' # lastRes \/ NodeReuseCount' # NodeReuseCount

\* C14: a resolution never returns a destroyed wrapper: when the wrapper
\* registered under a hash is destroyed, the next resolution of a valid
\* handle with that hash takes it out of the registry and returns a newly
\* constructed wrapper, which is not the old object.
C14_ResolutionNeverReturnsDestroyed ==
    [][\A s \in Slots :
          Resolved(s) =>
            /\ ~wr'[lastRes'.w].destroyed
            /\ (instances[s] # 0 /\ wr[instances[s]].destroyed) =>
                  /\ lastRes'.w # instances[s]
                  /\ ~wr[lastRes'.w].used
                  /\ instances'[s] = lastRes'.w
                  /\ \A t \in Slots : instances'[t] # instances[s]]_vars

\* The destroyed wrapper, which the client still holds, and the new one the
\* resolution returned and registered in its place
C14_Witness ==
    /\ lastRes.w # 0
    /\ instances[lastRes.slot] = lastRes.w
    /\ ~wr[lastRes.w].destroyed
    /\ \E v \in WrapperIds :
          /\ v # lastRes.w
          /\ wr[v].used /\ wr[v].held /\ wr[v].destroyed
          /\ wr[v].slot = lastRes.slot

\* fromHash(code) and fromHex(hex): whatever the registry inst holds under
\* the hash, 0 for the default
fromHash(inst, code) == inst[code]

fromHex(inst, hex) == inst[hex]

\* C15: when the destruction callback of a wrapper has fired, then as the
\* host call returns the wrapper is destroyed and the registry holds no
\* entry for it any more: neither fromHash nor fromHex returns it.
C15_DestructionEvictsEntry ==
    [][\A w \in WrapperIds :
          (wr[w].used /\ ~wr[w].destroyed /\ wr'[w].used /\ wr'[w].destroyed) =>
              \A s \in Slots : /\ fromHash(instances', s) # w
                               /\ fromHex(instances', s) # w]_vars

\* C16: the destroyed flag of a wrapper is never reset: once its destruction
\* callback has fired the wrapper is destroyed for as long as it exists,
\* whatever resolutions, creations in the same memory, removals undone or
\* clear() calls follow.
C16_DestroyedIsNeverReset ==
    [][\A w \in WrapperIds :
          (wr[w].used /\ wr[w].destroyed /\ wr'[w].used) => wr'[w].destroyed]_vars

\* A destroyed wrapper the client holds, after a new node took its memory
\* and clear() emptied the registry
C16_Witness ==
    \E w \in WrapperIds :
        /\ wr[w].used /\ wr[w].held /\ wr[w].destroyed
        /\ hslot[wr[w].slot] = "alive"
        /\ instances[wr[w].slot] = 0

\* C17: the construction of a wrapper for a handle that is invalid at that
\* time fails with ExistError.
C17_InvalidHandleExistError ==
    lastOp.op = "Node" => lastOp.res = "ExistError"

\* ------------------------------------------------------------------------
\* Claims about channels
\* ------------------------------------------------------------------------

\* The most recent read before access n that went by key k and unit u and
\* gave a value, with no Node.clear() since; 0 if there is none
LastRead(n, k, u) ==
    LET C == {i \in 1..(n - 1) :
                /\ plog[i].op = "read" /\ plog[i].kind = "value"
                /\ plog[i].k = k /\ plog[i].u = u
                /\ \A j \in (i + 1)..(n - 1) : plog[j].op # "clear"}
    IN IF C = {} THEN 0 ELSE CHOOSE i \in C : \A j \in C : j <= i

\* The most recent write before access n; 0 if there is none
LastWrite(n) ==
    LET C == {i \in 1..(n - 1) : plog[i].op \in {"write", "setitem"}}
    IN IF C = {} THEN 0 ELSE CHOOSE i \in C : \A j \in C : j <= i

\* C18: node[name, Cached], with or without a unit, gives the value of the
\* most recent read of node[name] with that unit, without asking the host,
\* even if the channel was written since; a normal read after a write gives
\* what was written; and when there was no such read, or Node.clear() was
\* called since, the cached lookup gives a live plug.
C18_CachedLookupGivesLastRead ==
    LET n == Len(plog)
    IN n > 0 =>
        /\ plog[n].op = "lookup" =>
              IF LastRead(n, plog[n].k, plog[n].u) # 0
              THEN /\ plog[n].kind = "cached"
                   /\ plog[n].res = plog[LastRead(n, plog[n].k, plog[n].u)].res
                   /\ ~plog[n].host
              ELSE plog[n].kind = "live"
        /\ (plog[n].op = "read" /\ plog[n].kind = "value" /\ LastWrite(n) # 0) =>
              /\ plog[n].res = _plug_to_python(plog[LastWrite(n)].cm, plog[n].u)
              /\ (plog[LastWrite(n)].op = "setitem" /\ plog[LastWrite(n)].u = plog[n].u)
                    => plog[n].res = plog[LastWrite(n)].v

\* A cached lookup right after a write gave the value of the read before
\* the write, which is not the value the host has now
C18_Witness ==
    LET n == Len(plog)
    IN /\ n >= 3
       /\ plog[n].op = "lookup"
       /\ plog[n].kind = "cached"
       /\ plog[n - 1].op \in {"write", "setitem"}
       /\ plog[n].res # _plug_to_python(mvalue, plog[n].u)

\* C19: a read right after write(v) on a channel gives v without asking the
\* host again: it returns v even when the host's read fails.
C19_ReadAfterWriteAsksNoHost ==
    LET n == Len(plog)
    IN (/\ n >= 2
        /\ plog[n].op = "read"
        /\ plog[n - 1].op = "write"
        /\ plog[n].k = plog[n - 1].k
        /\ plog[n].u = plog[n - 1].u)
        => /\ plog[n].kind = "value"
           /\ plog[n].res = plog[n - 1].v
           /\ ~plog[n].host

\* The last connect or disconnect the client made on index i; 0 if none
LastOn(i) ==
    LET C == {j \in 1..Len(alog) : alog[j].ix = i}
    IN IF C = {} THEN 0 ELSE CHOOSE j \in C : \A k \in C : k <= j

\* The source the client last connected to index i and did not disconnect
Expected(i) == IF LastOn(i) = 0 THEN 0 ELSE alog[LastOn(i)].src

C21_TypeFollowsCapabilities ==
    LET container == "kDagContainer" \in hasFn \/ "kContainer" \in hasFn
        dag == "kDagNode" \in hasFn
        set == "kSet" \in hasFn
        curve == "kAnimCurve" \in hasFn
    IN made.new =>
        /\ container => made.type = "ContainerNode"
        /\ (~container /\ dag) => made.type = "DagNode"
        /\ (~container /\ ~dag /\ set) => made.type = "ObjectSet"
        /\ (~container /\ ~dag /\ ~set /\ curve) => made.type = "AnimCurve"
        /\ (~container /\ ~dag /\ ~set /\ ~curve) => made.type = "Node"

C21_Witness ==
    /\ made.new
    /\ made.cls = "Node"
    /\ hasFn = {"kDagNode", "kSet"}
    /\ made.type = "DagNode"

\* ------------------------------------------------------------------------
\* Claims about installation and teardown of the undo command
\* ------------------------------------------------------------------------

\* C22: when installing the undo command fails, undo integration is a no-op
\* and the failure reaches the caller of commit: as long as no install
\* succeeded no closure is stored and no command of cmdx is on the undo
\* queue, so none can be invoked then or later, and a commit that returned
\* without raising has the command installed.
C22_FailedInstallIsLoudNoOp ==
    /\ ~installed => (undos = {} /\ redos = {} /\ ApiCmds = {})
    /\ (lastUndo.kind = "commit" /\ lastUndo.stage # "raised") => installed

C22_Witness ==
    /\ lastUndo.kind = "commit"
    /\ lastUndo.stage = "raised"
    /\ ~installed
    /\ uqueue.q # <<>>

\* clear() has left nothing behind
Cleared ==
    /\ \A s \in Slots : instances[s] = 0
    /\ undoId = None
    /\ redoId = None
    /\ undos = {}
    /\ redos = {}

\* C23: when clear() returns, the registry has no entries, the slot's undoId
\* and redoId are None and the tables undos and redos are empty, whatever
\* resolutions and commits came before.
C23_ClearLeavesNothing == [][clear => Cleared']_vars

C23_Witness ==
    /\ Cleared
    /\ installed
    /\ uqueue = NoQueue
    /\ \E w \in WrapperIds : wr[w].used

\* C24: after any commits, native undo and redo steps and destructions of
\* commands, every command of cmdx still on the host's undo queue finds its
\* undoId in shared.undos and its redoId in shared.redos.
C24_LiveCommandsFindTheirIds ==
    \A p \in ApiCmds :
        /\ uqueue.q[p[1]][p[2]].u \in undos
        /\ uqueue.q[p[1]][p[2]].r \in redos

\* ------------------------------------------------------------------------
\* Claims about the transaction as a context manager and its flushes
\* ------------------------------------------------------------------------

\* C25: outside the with block of an undoable transaction no undo chunk is
\* open: the chunk __enter__ opened is closed when __exit__ returns, whether
\* the body completed, the commit in __exit__ raised or the body raised.
C25_ChunkClosedAfterExit ==
    (_opts.undoable /\ ~inBody) => uqueue.depth = 0

\* C26: a host failure while the transaction flushes its queue, in doIt and
\* in the flushes createNode, deleteNode and a forced connect make on their
\* own, is raised as ModifierError with the history, and on an atomic
\* transaction nothing the host modifier had applied is left applied.
C26_FlushFailuresAreModifierErrors ==
    (/\ lastCall.m \in {"doIt", "createNode", "deleteNode", "connect"}
     /\ lastCall.res \in {"RuntimeError", "ModifierError"})
        => /\ lastCall.res = "ModifierError"
           /\ lastCall.history = _history
           /\ _opts.atomic => _modifier.done = 0

\* C27: when a doIt has gone through, called by the client or by __exit__,
\* every setLocked, setKeyable and setNiceName request made before it has
\* been applied and the lists they were stowed in are empty.
C27_DoItAppliesStowedRequests ==
    (lastCall.m \in {"doIt", "exit"} /\ lastCall.res = "ok") =>
        \A k \in FlagKinds : _stowed[StowList(k)] = <<>>

\* C28: once connect(src, dst, force=True) has returned, flushing the queue
\* does not stop at that connect because dst has an incoming connection,
\* whether the connection was on the host or was queued by an earlier connect
\* of the transaction, and when the flush goes through src is the only
\* source connected to dst.
C28_ForcedConnectNeverCollides ==
    (lastCall.m = "connect" /\ lastCall.force /\ lastCall.res = "ok") =>
        LET R == MDGModifier_doIt(Graph, _modifier)
            n == Len(_modifier.ops)
            con == _modifier.ops[n]
        IN /\ ~(~R.ok /\ R.M.done = n - 1 /\ Incoming(R.G, con.b) # {})
           /\ R.ok => Incoming(R.G, con.b) = {<<con.a, con.b>>}

\* ------------------------------------------------------------------------
\* Claims about appending to an array channel
\* ------------------------------------------------------------------------

\* C29: append with autofill off puts the value at the end of the array: the
\* logical index of the element it writes or connects is greater than every
\* index the array had, so no existing element is overwritten or
\* reconnected, also when the array is sparse.
C29_AppendGoesPastTheEnd ==
    [][(Len(alog') > Len(alog) /\ alog'[Len(alog')].op = "append") =>
            \A p \in 1..count(marray) :
                arrayIndices(marray)[p] < alog'[Len(alog')].ix]_vars

\* ------------------------------------------------------------------------
\* Claims about attributes added in a transaction
\* ------------------------------------------------------------------------

\* C30 as claimed: an addAttr for a node the transaction is already about to
\* add the attribute to raises ExistError at the call and queues nothing; an
\* addAttr of the same attribute for another node is accepted; and when a
\* doIt has gone through, no add is pending any more.
C30_SecondAddRaisesAtTheCall ==
    [][/\ \A n \in Slots :
            (mod_addAttr(n) /\ InSeq(n, _attributesBeingAdded))
                => /\ lastCall'.res = "ExistError"
                   /\ _modifier' = _modifier
                   /\ _attributesBeingAdded' = _attributesBeingAdded
       /\ \A n \in Slots :
            (/\ mod_addAttr(n)
             /\ _attributesBeingAdded # <<>>
             /\ ~InSeq(n, _attributesBeingAdded)
             /\ _isalive(n)
             /\ n \notin scene.dyn)
                => /\ lastCall'.res # "ExistError"
                   /\ InSeq(n, _attributesBeingAdded')
       /\ (lastCall'.m \in {"doIt", "exit"} /\ lastCall'.res = "ok")
                => _attributesBeingAdded' = <<>>]_vars

\* C30 as amended: the same, for a second addAttr on a node that still
\* exists when safe mode is on (safe mode asserts that first).
C30_SecondAddOnLiveNodeRaises ==
    [][/\ \A n \in Slots :
            (/\ mod_addAttr(n)
             /\ InSeq(n, _attributesBeingAdded)
             /\ SAFE_MODE => _isalive(n))
                => /\ lastCall'.res = "ExistError"
                   /\ _modifier' = _modifier
                   /\ _attributesBeingAdded' = _attributesBeingAdded
       /\ \A n \in Slots :
            (/\ mod_addAttr(n)
             /\ _attributesBeingAdded # <<>>
             /\ ~InSeq(n, _attributesBeingAdded)
             /\ _isalive(n)
             /\ n \notin scene.dyn)
                => /\ lastCall'.res # "ExistError"
                   /\ InSeq(n, _attributesBeingAdded')
       /\ (lastCall'.m \in {"doIt", "exit"} /\ lastCall'.res = "ok")
                => _attributesBeingAdded' = <<>>]_vars

C30_Witness ==
    /\ lastCall.m = "addAttr"
    /\ lastCall.res = "ExistError"
    /\ Len(_attributesBeingAdded) = 1
    /\ _modifier.done = 0
    /\ Len(_modifier.ops) = 1

====
